---- MODULE Spec2Model ----
(***************************************************************************)
(* A model of the RLNC codec of mempirate/rlnc-rs: the encoder             *)
(* (src/src/encode.rs, crates/rlnc/src/primitives/mod.rs), the RREF matrix *)
(* and the generic decoder built on it (src/src/matrix.rs,                 *)
(* crates/rlnc/src/decode.rs) and the stand-alone GF(2^8) decoder          *)
(* (src/src/decode.rs, src/src/primitives/galois.rs).                      *)
(*                                                                         *)
(* Representation.                                                         *)
(*  - A Rust Vec is a TLA+ sequence, so every index of the model is the    *)
(*    source's index plus one: columns run over 1..chunk_count, and a      *)
(*    pivot entry Some(r) names the r-th row of the row buffer.            *)
(*  - Option<T> is a sequence of length at most one: None is << >> and     *)
(*    Some(x) is <<x>>.                                                    *)
(*  - blstrs::Scalar is a prime field of about 255 bits that is stored in  *)
(*    32 little-endian bytes, 31 of which can hold arbitrary content.      *)
(*    The model keeps that structure at a width TLC can compute with: a    *)
(*    prime field of 17 bits (MODULUS = 2^16 + 1) stored in SCALAR_BYTES   *)
(*    = 3 little-endian bytes, SAFE_CAPACITY = 2 of which can hold         *)
(*    arbitrary content.  Every byte string of SAFE_CAPACITY bytes is      *)
(*    below the modulus, and the modulus needs one more byte, as in the    *)
(*    source.                                                              *)
(*  - The thresholds of should_parallelize (512 KiB of work, chunks of     *)
(*    128 KiB) are scaled to the model's chunks in the same way: a chunk   *)
(*    of one symbol is a work unit, and two of them are the total.         *)
(*  - GF(2^8) is modelled bit for bit from the source's tables.            *)
(***************************************************************************)
EXTENDS Integers, Sequences, FiniteSets, TLC

VARIABLES
    payload,      \* the bytes the encoder was constructed from
    encoder,      \* SecureEncoder / Encoder<Scalar>: chunks, chunk_count, chunk_size
    encoded,      \* result of the last encode_with_vector call
    decoder,      \* crates/rlnc Decoder<Scalar>: chunk_size, chunk_count, matrix
    gf,           \* src/src/decode.rs Decoder over GF256
    ret,          \* result of the last decode call
    last,         \* the packet handed to the last decode call
    fed,          \* how many calls in a row were handed `last` (capped at MaxFeeds)
    rank_before,  \* rank() as observed before the last decode call
    vector,       \* the coding vector handed to the last encode_with_vector call
    call          \* the last call made: its operation, and for a constructor or a
                  \* field operation its arguments and its result

vars == <<payload, encoder, encoded, decoder, gf, ret, last, fed, rank_before, vector, call>>

----------------------------------------------------------------------------
(* Bounds of the model.                                                    *)

\* longest payload handed to the encoder
MaxLen == 2
\* largest chunk count / generation size
MaxChunks == 3
\* how many times in a row the caller hands the same packet to decode
MaxFeeds == 2

\* payload bytes: the padding byte, an ordinary byte ("A") and the marker
PayloadBytes == {0, 65, 129}
\* coefficients the coding vectors are drawn from
Coeffs == {0, 1}
\* data symbols of packets that do not come from the encoder
ForgedSymbols == {1}
\* coefficients handed to encode_with_vector directly
EncCoeffs == {0, 1, 2}
\* coefficients and data bytes of the packets handed to the GF(2^8) decoder
GFCoeffs == {0, 1}
GFBytes == {129}

----------------------------------------------------------------------------
(* Option and Result values.                                               *)

None == << >>
Some(x) == <<x>>
is_some(o) == o # << >>
unwrap(o) == o[1]

\* a Vec built element by element, as an explicit sequence
Vec(f) == f \o << >>

Ok_None == [kind |-> "None"]
Ok_Some(bytes) == [kind |-> "Some", bytes |-> bytes]
\* the error with its two fields exchanged
Err_InvalidCodingVectorLength_swapped(got, expected) ==
    [kind |-> "Err", err |-> "InvalidCodingVectorLength", got |-> expected, expected |-> got]
Err_InvalidCodingVectorLength(got, expected) ==
    [kind |-> "Err", err |-> "InvalidCodingVectorLength", got |-> got, expected |-> expected]
Err_InvalidEncoding == [kind |-> "Err", err |-> "InvalidEncoding"]
Err_NotEnoughPackets(have, need) ==
    [kind |-> "Err", err |-> "NotEnoughPackets", got |-> have, expected |-> need]
Err_EmptyData == [kind |-> "Err", err |-> "EmptyData"]
Err_ZeroChunkCount == [kind |-> "Err", err |-> "ZeroChunkCount"]
Err_ZeroChunkSize == [kind |-> "Err", err |-> "ZeroChunkSize"]
Err_ZeroPacketCount == [kind |-> "Err", err |-> "ZeroPacketCount"]
\* an unwrap of None, or an index out of bounds
Panic == [kind |-> "Panic"]
NoCall == [kind |-> "NoCall"]

div_ceil(a, b) == (a + b - 1) \div b

----------------------------------------------------------------------------
(* The scalar field (blstrs::Scalar behind the Field trait).               *)

BOUNDARY_MARKER == 129
MODULUS == 65537
SCALAR_BYTES == 3
SAFE_CAPACITY == 2

Scalar_ZERO == 0
Scalar_ONE == 1

Scalar_add(a, b) == (a + b) % MODULUS
Scalar_sub(a, b) == (a + MODULUS - b) % MODULUS
\* a * b mod MODULUS, split so that no intermediate leaves 32 bits
Scalar_mul(a, b) ==
    ((((a \div 256) * b) % MODULUS) * 256 + (a % 256) * b) % MODULUS

\* the multiplicative inverse of a non-zero a: from MODULUS = q * a + r,
\* 1 / a = -q * (1 / r)
RECURSIVE Scalar_inverse(_)
Scalar_inverse(a) ==
    IF a = Scalar_ONE THEN Scalar_ONE
    ELSE Scalar_mul(MODULUS - (MODULUS \div a), Scalar_inverse(MODULUS % a))

\* Field::invert: CtOption, None for zero
Scalar_invert(a) == IF a = Scalar_ZERO THEN None ELSE Some(Scalar_inverse(a))
is_zero_vartime(a) == a = Scalar_ZERO

RECURSIVE le_value(_)
le_value(bytes) ==
    IF bytes = << >> THEN 0 ELSE Head(bytes) + 256 * le_value(Tail(bytes))

\* Scalar::from_bytes_le: None when the value is not below the modulus
Scalar_from_bytes_le(buf) ==
    LET v == le_value(buf) IN IF v < MODULUS THEN Some(v) ELSE None

RECURSIVE Scalar_to_bytes_le_n(_, _)
Scalar_to_bytes_le_n(s, n) ==
    IF n = 0 THEN << >> ELSE <<s % 256>> \o Scalar_to_bytes_le_n(s \div 256, n - 1)
Scalar_to_bytes_le(s) == Scalar_to_bytes_le_n(s, SCALAR_BYTES)

\* impl Field for Scalar: from_bytes copies into a zeroed buffer and unwraps
Field_from_bytes(bytes) ==
    LET buf == Vec([i \in 1..SCALAR_BYTES |-> IF i <= Len(bytes) THEN bytes[i] ELSE 0])
    IN  unwrap(Scalar_from_bytes_le(buf))
\* every byte of the encoding returned, the one past SAFE_CAPACITY included
Field_to_bytes_whole(s) == Scalar_to_bytes_le(s)
\* to_bytes: self.to_bytes_le()[..SAFE_CAPACITY]
Field_to_bytes(s) == SubSeq(Scalar_to_bytes_le(s), 1, SAFE_CAPACITY)

----------------------------------------------------------------------------
(* RLNCPacket (crates/rlnc/src/primitives/packet.rs).                      *)

Packet(cv, data) == [coding_vector |-> Vec(cv), data |-> Vec(data)]

leading_coefficient(p) ==
    LET nz == {i \in 1..Len(p.coding_vector) : ~is_zero_vartime(p.coding_vector[i])}
    IN  IF nz = {} THEN None ELSE Some(CHOOSE i \in nz : \A j \in nz : i <= j)

\* the packet stored as it left the elimination
normalize_skipped(p) == p
normalize(p) ==
    LET lc == leading_coefficient(p) IN
    IF is_some(lc)
    THEN LET inv == unwrap(Scalar_invert(p.coding_vector[unwrap(lc)]))
         IN  Packet(Vec([i \in 1..Len(p.coding_vector) |-> Scalar_mul(p.coding_vector[i], inv)]),
                    Vec([i \in 1..Len(p.data) |-> Scalar_mul(p.data[i], inv)]))
    ELSE p

\* the coding vector reduced and the data left as it was
subtract_row_vector_only(dst, src, factor) ==
    Packet(Vec([i \in 1..Len(dst.coding_vector) |->
                Scalar_sub(dst.coding_vector[i], Scalar_mul(factor, src.coding_vector[i]))]),
           dst.data)

subtract_row(dst, src, factor) ==
    Packet(Vec([i \in 1..Len(dst.coding_vector) |->
                Scalar_sub(dst.coding_vector[i], Scalar_mul(factor, src.coding_vector[i]))]),
           Vec([i \in 1..Len(dst.data) |->
                Scalar_sub(dst.data[i], Scalar_mul(factor, src.data[i]))]))

----------------------------------------------------------------------------
(* Chunks and the encoder (src/src/encode.rs).                             *)

Ok(v) == [kind |-> "Ok", value |-> v]
Min(a, b) == IF a <= b THEN a ELSE b
zeros(n) == Vec([i \in 1..n |-> Scalar_ZERO])

\* Chunk::from_bytes: bytes.chunks(SAFE_CAPACITY), each group one symbol
Chunk_from_bytes(bytes) ==
    [symbols |-> Vec([g \in 1..div_ceil(Len(bytes), SAFE_CAPACITY) |->
                    Field_from_bytes(SubSeq(bytes, (g - 1) * SAFE_CAPACITY + 1,
                                            Min(g * SAFE_CAPACITY, Len(bytes))))]),
     size |-> Len(bytes)]

\* the padding filled with the marker byte instead of zero
resize_marker(data, new_len) ==
    Vec([i \in 1..new_len |-> IF i <= Len(data) THEN data[i] ELSE BOUNDARY_MARKER])
\* Vec::resize(new_len, 0)
resize(data, new_len) ==
    Vec([i \in 1..new_len |-> IF i <= Len(data) THEN data[i] ELSE 0])

\* slice::chunks_exact(chunk_size)
chunks_exact(data, chunk_size) ==
    Vec([k \in 1..(Len(data) \div chunk_size) |->
        SubSeq(data, (k - 1) * chunk_size + 1, k * chunk_size)])

\* the data chunked as it is, without a marker pushed behind it
SecureEncoder_new_unmarked(data, chunk_count) ==
    IF data = << >> THEN Err_EmptyData
    ELSE IF chunk_count = 0 THEN Err_ZeroChunkCount
    ELSE LET chunk_size0 == div_ceil(Len(data), chunk_count)
             chunk_size == div_ceil(chunk_size0, SAFE_CAPACITY) * SAFE_CAPACITY
             split == chunks_exact(resize(data, chunk_size * chunk_count), chunk_size)
         IN  Ok([chunks |-> Vec([k \in 1..Len(split) |-> Chunk_from_bytes(split[k])]),
                 chunk_count |-> chunk_count,
                 chunk_size |-> chunk_size])

SecureEncoder_new(data, chunk_count) ==
    IF data = << >> THEN Err_EmptyData
    ELSE IF chunk_count = 0 THEN Err_ZeroChunkCount
    ELSE LET marked == Append(data, BOUNDARY_MARKER)
             chunk_size0 == div_ceil(Len(marked), chunk_count)
             chunk_size == div_ceil(chunk_size0, SAFE_CAPACITY) * SAFE_CAPACITY
             padded_len == chunk_size * chunk_count
             padded == resize(marked, padded_len)
             split == chunks_exact(padded, chunk_size)
         IN  Ok([chunks |-> Vec([k \in 1..Len(split) |-> Chunk_from_bytes(split[k])]),
                 chunk_count |-> chunk_count,
                 chunk_size |-> chunk_size])

\* the chunk count examined before the data
prepare_count_first(data, chunk_count) ==
    IF chunk_count = 0 THEN Err_ZeroChunkCount
    ELSE IF data = << >> THEN Err_EmptyData
    ELSE LET chunk_size == div_ceil(div_ceil(Len(data) + 1, chunk_count), SAFE_CAPACITY)
                              * SAFE_CAPACITY
             split == chunks_exact(resize(Append(data, BOUNDARY_MARKER),
                                          chunk_size * chunk_count), chunk_size)
         IN  Ok(Vec([k \in 1..Len(split) |-> Chunk_from_bytes(split[k])]))

\* Encoder::prepare for SecureEncoder: the chunks alone
prepare(data, chunk_count) ==
    IF data = << >> THEN Err_EmptyData
    ELSE IF chunk_count = 0 THEN Err_ZeroChunkCount
    ELSE LET marked == Append(data, BOUNDARY_MARKER)
             chunk_size0 == div_ceil(Len(marked), chunk_count)
             chunk_size == div_ceil(chunk_size0, SAFE_CAPACITY) * SAFE_CAPACITY
             padded_len == chunk_size * chunk_count
             padded == resize(marked, padded_len)
             split == chunks_exact(padded, chunk_size)
         IN  Ok(Vec([k \in 1..Len(split) |-> Chunk_from_bytes(split[k])]))

\* Chunks::new of crates/rlnc; its errors are those of ChunksError
Chunks_new(data, chunk_count) ==
    IF data = << >> THEN Err_EmptyData
    ELSE IF chunk_count = 0 THEN Err_ZeroChunkCount
    ELSE LET marked == Append(data, BOUNDARY_MARKER)
             chunk_size0 == div_ceil(Len(marked), chunk_count)
             chunk_size == div_ceil(chunk_size0, SAFE_CAPACITY) * SAFE_CAPACITY
             padded_len == chunk_size * chunk_count
             padded == resize(marked, padded_len)
             split == chunks_exact(padded, chunk_size)
         IN  Ok([inner |-> Vec([k \in 1..Len(split) |-> Chunk_from_bytes(split[k])]),
                 chunk_size |-> chunk_size])

\* the loop leaving at the first zero coefficient instead of going on to the next pair
RECURSIVE encode_inner_from_break(_, _, _, _)
encode_inner_from_break(enc, coding_vector, result, k) ==
    IF k > Min(Len(enc.chunks), Len(coding_vector)) THEN result
    ELSE IF is_zero_vartime(coding_vector[k]) THEN result
    ELSE encode_inner_from_break(enc, coding_vector,
            Vec([i \in 1..Len(result) |->
                IF i <= Len(enc.chunks[k].symbols)
                THEN Scalar_add(result[i], Scalar_mul(enc.chunks[k].symbols[i], coding_vector[k]))
                ELSE result[i]]),
            k + 1)

\* the loop of encode_inner over chunks.iter().zip(coding_vector), from pair k on
RECURSIVE encode_inner_from(_, _, _, _)
encode_inner_from(enc, coding_vector, result, k) ==
    IF k > Min(Len(enc.chunks), Len(coding_vector)) THEN result
    ELSE LET coefficient == coding_vector[k]
             symbols == enc.chunks[k].symbols
         IN  IF is_zero_vartime(coefficient)
             THEN encode_inner_from(enc, coding_vector, result, k + 1)
             ELSE encode_inner_from(enc, coding_vector,
                    Vec([i \in 1..Len(result) |->
                        IF i <= Len(symbols)
                        THEN Scalar_add(result[i], Scalar_mul(symbols[i], coefficient))
                        ELSE result[i]]),
                    k + 1)

encode_inner(enc, coding_vector) ==
    encode_inner_from(enc, coding_vector,
                      zeros(div_ceil(enc.chunk_size, SAFE_CAPACITY)), 1)

symbol_count(enc) == div_ceil(enc.chunk_size, SAFE_CAPACITY)

encode_with_vector(enc, coding_vector) ==
    IF Len(coding_vector) # enc.chunk_count
    THEN Err_InvalidCodingVectorLength(Len(coding_vector), enc.chunk_count)
    ELSE Ok(Packet(coding_vector, encode_inner(enc, coding_vector)))

\* the thresholds of should_parallelize, at the scale of the model's chunks
MIN_TOTAL_WORK == 4
MIN_CHUNKS == 2
MIN_WORK_UNIT == 2

should_parallelize(enc) ==
    LET total_work == enc.chunk_count * enc.chunk_size
    IN  total_work >= MIN_TOTAL_WORK /\ enc.chunk_size >= MIN_WORK_UNIT
                                     /\ enc.chunk_count >= MIN_CHUNKS

\* the closure of filter_map on the k-th (chunk, coefficient) pair
partial(enc, coding_vector, k) ==
    IF is_zero_vartime(coding_vector[k]) THEN None
    ELSE Some(Vec([i \in 1..Len(enc.chunks[k].symbols) |->
                    Scalar_mul(enc.chunks[k].symbols[i], coding_vector[k])]))

\* the right operand dropped
reduce_op_left(a, b) == a
\* the closure of reduce: a.iter_mut().zip(b), x += y
reduce_op(a, b) ==
    Vec([i \in 1..Len(a) |-> IF i <= Len(b) THEN Scalar_add(a[i], b[i]) ELSE a[i]])

RECURSIVE fold_pairs(_, _, _, _, _)
\* one worker folding the pairs lo..hi into acc, the skipped ones left out
fold_pairs(enc, coding_vector, acc, lo, hi) ==
    IF lo > hi THEN acc
    ELSE LET item == partial(enc, coding_vector, lo)
         IN  fold_pairs(enc, coding_vector,
                        IF item = None THEN acc ELSE reduce_op(acc, unwrap(item)),
                        lo + 1, hi)

RECURSIVE par_reduce(_, _, _, _)
\* what the pairs lo..hi can reduce to: they are folded by one worker from the
\* identity, or split in two runs that are reduced apart and then combined
par_reduce(enc, coding_vector, lo, hi) ==
    LET identity == zeros(symbol_count(enc))
    IN  {fold_pairs(enc, coding_vector, identity, lo, hi)} \cup
        UNION {{reduce_op(a, b) : a \in par_reduce(enc, coding_vector, lo, mid),
                                  b \in par_reduce(enc, coding_vector, mid + 1, hi)} :
               mid \in lo..(hi - 1)}

\* encode_with_vector as built with the feature "parallel": the results the
\* scheduling of the reduction can give
encode_with_vector_parallel(enc, coding_vector) ==
    IF Len(coding_vector) # enc.chunk_count
    THEN {Err_InvalidCodingVectorLength(Len(coding_vector), enc.chunk_count)}
    ELSE IF ~should_parallelize(enc)
    THEN {Ok(Packet(coding_vector, encode_inner(enc, coding_vector)))}
    ELSE {Ok(Packet(coding_vector, result)) :
             result \in par_reduce(enc, coding_vector, 1,
                                   Min(Len(enc.chunks), Len(coding_vector)))}

----------------------------------------------------------------------------
(* The RREF matrix (src/src/matrix.rs).                                    *)

scalars_to_bytes(scalars) ==
    Vec([b \in 1..(Len(scalars) * SAFE_CAPACITY) |->
        Field_to_bytes(scalars[((b - 1) \div SAFE_CAPACITY) + 1])[((b - 1) % SAFE_CAPACITY) + 1]])

\* the pivot table reserved but left empty
Matrix_new_with_capacity(chunk_count) ==
    [chunk_count |-> chunk_count, data |-> << >>, pivots |-> << >>, rank |-> 0]
Matrix_new(chunk_count) ==
    [chunk_count |-> chunk_count,
     data |-> << >>,
     pivots |-> Vec([c \in 1..chunk_count |-> None]),
     rank |-> 0]

\* completion only once the rank has passed chunk_count
can_decode_strict(m) == m.rank > m.chunk_count
can_decode(m) == m.rank >= m.chunk_count

\* the first position instead of the last
position_first(bytes, b) ==
    LET hits == {i \in 1..Len(bytes) : bytes[i] = b}
    IN  IF hits = {} THEN None ELSE Some(CHOOSE i \in hits : \A j \in hits : i <= j)

\* Iterator::rposition
rposition(bytes, b) ==
    LET hits == {i \in 1..Len(bytes) : bytes[i] = b}
    IN  IF hits = {} THEN None ELSE Some(CHOOSE i \in hits : \A j \in hits : j <= i)

RECURSIVE concat(_)
concat(seqs) == IF seqs = << >> THEN << >> ELSE Head(seqs) \o concat(Tail(seqs))

\* bytes without a marker returned whole instead of refused
Matrix_decode_lenient(m, chunk_size) ==
    IF ~can_decode(m) THEN Err_NotEnoughPackets(m.rank, m.chunk_count)
    ELSE LET decoded == concat(Vec([c \in 1..m.chunk_count |->
                            scalars_to_bytes(m.data[unwrap(m.pivots[c])].data)]))
             boundary_pos == rposition(decoded, BOUNDARY_MARKER)
         IN  IF boundary_pos = None THEN Ok(decoded)
             ELSE Ok(SubSeq(decoded, 1, unwrap(boundary_pos) - 1))

Matrix_decode(m, chunk_size) ==
    IF ~can_decode(m) THEN Err_NotEnoughPackets(m.rank, m.chunk_count)
    ELSE LET scalars_per_chunk == div_ceil(chunk_size, SAFE_CAPACITY)
             \* copy_from_slice panics when the lengths differ
             bad == \E c \in 1..m.chunk_count :
                       /\ is_some(m.pivots[c])
                       /\ \/ unwrap(m.pivots[c]) > Len(m.data)
                          \/ Len(m.data[unwrap(m.pivots[c])].data) # scalars_per_chunk
             chunk_scalars == Vec([c \in 1..m.chunk_count |->
                                 IF is_some(m.pivots[c])
                                 THEN m.data[unwrap(m.pivots[c])].data
                                 ELSE zeros(scalars_per_chunk)])
             decoded == concat(Vec([c \in 1..m.chunk_count |-> scalars_to_bytes(chunk_scalars[c])]))
             boundary_pos == rposition(decoded, BOUNDARY_MARKER)
         IN  IF bad THEN Panic
             ELSE IF boundary_pos = None THEN Err_InvalidEncoding
             \* truncate(boundary_pos): the bytes before the marker
             ELSE Ok(SubSeq(decoded, 1, unwrap(boundary_pos) - 1))

\* the loop of eliminate over the occupied pivots in column order, from col on
RECURSIVE eliminate_from(_, _, _)
eliminate_from(m, packet, col) ==
    IF col > Len(m.pivots) THEN [packet |-> packet, panic |-> FALSE]
    ELSE IF m.pivots[col] = None THEN eliminate_from(m, packet, col + 1)
    ELSE LET row == unwrap(m.pivots[col])
             coeff == packet.coding_vector[col]
         IN  IF is_zero_vartime(coeff) THEN eliminate_from(m, packet, col + 1)
             ELSE IF row > Len(m.data) THEN [packet |-> packet, panic |-> TRUE]
             ELSE LET pivot_row == m.data[row]
                      pivot_coeff == pivot_row.coding_vector[col]
                      inv == Scalar_invert(pivot_coeff)
                  IN  IF inv = None THEN [packet |-> packet, panic |-> TRUE]
                      ELSE eliminate_from(m,
                             subtract_row(packet, pivot_row, Scalar_mul(coeff, unwrap(inv))),
                             col + 1)

\* the packet handed on as it arrived
eliminate_skipped(m, packet) == [packet |-> packet, panic |-> FALSE]
eliminate(m, packet) == eliminate_from(m, packet, 1)

\* the earlier rows left as they are
back_substitute_none(m, new_row_idx) == m
back_substitute(m, new_row_idx) ==
    LET new_row == m.data[new_row_idx]
        lc == leading_coefficient(new_row)
    IN  IF lc = None THEN m
        ELSE LET new_pivot_col == unwrap(lc) IN
             [m EXCEPT !.data =
                Vec([i \in 1..Len(m.data) |->
                    IF i < new_row_idx /\ ~is_zero_vartime(m.data[i].coding_vector[new_pivot_col])
                    THEN subtract_row(m.data[i], new_row, m.data[i].coding_vector[new_pivot_col])
                    ELSE m.data[i]])]

\* the reduced packet pushed to the row buffer also when it is rejected
push_rref_keeps_rejected(m, packet) ==
    LET e == eliminate(m, packet)
        lc == leading_coefficient(e.packet)
    IN  IF e.panic THEN [matrix |-> m, ret |-> FALSE, panic |-> TRUE]
        ELSE IF is_some(lc) /\ m.pivots[unwrap(lc)] = None
        THEN LET col == unwrap(lc)
                 stored == [m EXCEPT !.pivots[col] = Some(Len(m.data) + 1),
                                     !.data = Append(m.data, normalize(e.packet))]
                 counted == [back_substitute(stored, Len(stored.data)) EXCEPT !.rank = @ + 1]
             IN  [matrix |-> counted, ret |-> can_decode(counted), panic |-> FALSE]
        ELSE [matrix |-> [m EXCEPT !.data = Append(m.data, e.packet)],
              ret |-> FALSE, panic |-> FALSE]

\* the rank counted for every packet pushed, accepted or not
push_rref_counts_rejected(m, packet) ==
    LET e == eliminate(m, packet)
        lc == leading_coefficient(e.packet)
    IN  IF e.panic THEN [matrix |-> m, ret |-> FALSE, panic |-> TRUE]
        ELSE IF is_some(lc) /\ m.pivots[unwrap(lc)] = None
        THEN LET col == unwrap(lc)
                 stored == [m EXCEPT !.pivots[col] = Some(Len(m.data) + 1),
                                     !.data = Append(m.data, normalize(e.packet))]
                 counted == [back_substitute(stored, Len(stored.data)) EXCEPT !.rank = @ + 1]
             IN  [matrix |-> counted, ret |-> can_decode(counted), panic |-> FALSE]
        ELSE [matrix |-> [m EXCEPT !.rank = @ + 1], ret |-> FALSE, panic |-> FALSE]

\* the pivot entry written after the push: the length of the buffer with
\* the new row in it
push_rref_pivot_after_push(m, packet) ==
    LET e == eliminate(m, packet)
        lc == leading_coefficient(e.packet)
    IN  IF e.panic THEN [matrix |-> m, ret |-> FALSE, panic |-> TRUE]
        ELSE IF is_some(lc) /\ m.pivots[unwrap(lc)] = None
        THEN LET col == unwrap(lc)
                 pushed == [m EXCEPT !.data = Append(m.data, normalize(e.packet))]
                 stored == [pushed EXCEPT !.pivots[col] = Some(Len(pushed.data) + 1)]
                 counted == [back_substitute(stored, Len(stored.data)) EXCEPT !.rank = @ + 1]
             IN  [matrix |-> counted, ret |-> can_decode(counted), panic |-> FALSE]
        ELSE [matrix |-> m, ret |-> FALSE, panic |-> FALSE]

push_rref(m, packet) ==
    LET e == eliminate(m, packet)
        lc == leading_coefficient(e.packet)
    IN  IF e.panic THEN [matrix |-> m, ret |-> FALSE, panic |-> TRUE]
        ELSE IF is_some(lc) /\ m.pivots[unwrap(lc)] = None
        THEN LET col == unwrap(lc)
                 normalized == normalize(e.packet)
                 stored == [m EXCEPT !.pivots[col] = Some(Len(m.data) + 1),
                                     !.data = Append(m.data, normalized)]
                 reduced == back_substitute(stored, Len(stored.data))
                 counted == [reduced EXCEPT !.rank = @ + 1]
             IN  [matrix |-> counted, ret |-> can_decode(counted), panic |-> FALSE]
        ELSE [matrix |-> m, ret |-> FALSE, panic |-> FALSE]

----------------------------------------------------------------------------
(* The generic decoder (crates/rlnc/src/decode.rs).                        *)

\* From<ChunksError> for the RLNCError of crates/rlnc: the variant of the
\* same name
ChunksError_into(e) == e

Decoder_new(chunk_size, chunk_count) ==
    IF chunk_size = 0 THEN ChunksError_into(Err_ZeroChunkSize)
    ELSE IF chunk_count = 0 THEN Err_ZeroPacketCount
    ELSE Ok([chunk_size |-> chunk_size, chunk_count |-> chunk_count,
             matrix |-> Matrix_new(chunk_count)])

\* the final extraction run on every call once the matrix can decode
Decoder_decode_reemits(d, packet) ==
    IF Len(packet.coding_vector) # d.chunk_count
    THEN [decoder |-> d,
          ret |-> Err_InvalidCodingVectorLength(Len(packet.coding_vector), d.chunk_count)]
    ELSE LET pushed == push_rref(d.matrix, packet)
             after == [d EXCEPT !.matrix = pushed.matrix]
             out == Matrix_decode(after.matrix, after.chunk_size)
         IN  IF pushed.panic THEN [decoder |-> after, ret |-> Panic]
             ELSE IF can_decode(after.matrix)
             THEN [decoder |-> after,
                   ret |-> IF out.kind = "Ok" THEN Ok_Some(out.value) ELSE out]
             ELSE [decoder |-> after, ret |-> Ok_None]

Decoder_decode(d, packet) ==
    IF Len(packet.coding_vector) # d.chunk_count
    THEN [decoder |-> d,
          ret |-> Err_InvalidCodingVectorLength(Len(packet.coding_vector), d.chunk_count)]
    ELSE LET pushed == push_rref(d.matrix, packet)
             after == [d EXCEPT !.matrix = pushed.matrix]
         IN  IF pushed.panic THEN [decoder |-> after, ret |-> Panic]
             ELSE IF pushed.ret
             THEN LET out == Matrix_decode(after.matrix, after.chunk_size)
                  IN  [decoder |-> after,
                       ret |-> IF out.kind = "Ok" THEN Ok_Some(out.value) ELSE out]
             ELSE [decoder |-> after, ret |-> Ok_None]

Decoder_rank(d) == d.matrix.rank
Decoder_can_decode(d) == can_decode(d.matrix)

----------------------------------------------------------------------------
(* GF(2^8) (src/src/primitives/galois.rs).  A table entry t[k] of the      *)
(* source is entry k + 1 of the sequence.                                  *)

GF256_ORDER == 256

GF256_LOG_TABLE ==
    <<0, 0, 1, 25, 2, 50, 26, 198, 3, 223, 51, 238, 27, 104, 199, 75,
      4, 100, 224, 14, 52, 141, 239, 129, 28, 193, 105, 248, 200, 8, 76, 113,
      5, 138, 101, 47, 225, 36, 15, 33, 53, 147, 142, 218, 240, 18, 130, 69,
      29, 181, 194, 125, 106, 39, 249, 185, 201, 154, 9, 120, 77, 228, 114, 166,
      6, 191, 139, 98, 102, 221, 48, 253, 226, 152, 37, 179, 16, 145, 34, 136,
      54, 208, 148, 206, 143, 150, 219, 189, 241, 210, 19, 92, 131, 56, 70, 64,
      30, 66, 182, 163, 195, 72, 126, 110, 107, 58, 40, 84, 250, 133, 186, 61,
      202, 94, 155, 159, 10, 21, 121, 43, 78, 212, 229, 172, 115, 243, 167, 87,
      7, 112, 192, 247, 140, 128, 99, 13, 103, 74, 222, 237, 49, 197, 254, 24,
      227, 165, 153, 119, 38, 184, 180, 124, 17, 68, 146, 217, 35, 32, 137, 46,
      55, 63, 209, 91, 149, 188, 207, 205, 144, 135, 151, 178, 220, 252, 190, 97,
      242, 86, 211, 171, 20, 42, 93, 158, 132, 60, 57, 83, 71, 109, 65, 162,
      31, 45, 67, 216, 183, 123, 164, 118, 196, 23, 73, 236, 127, 12, 111, 246,
      108, 161, 59, 82, 41, 157, 85, 170, 251, 96, 134, 177, 187, 204, 62, 90,
      203, 89, 95, 176, 156, 169, 160, 81, 11, 245, 22, 235, 122, 117, 44, 215,
      79, 174, 213, 233, 230, 231, 173, 232, 116, 214, 244, 234, 168, 80, 88, 175>>

GF256_EXP_TABLE ==
    <<1, 2, 4, 8, 16, 32, 64, 128, 29, 58, 116, 232, 205, 135, 19, 38,
      76, 152, 45, 90, 180, 117, 234, 201, 143, 3, 6, 12, 24, 48, 96, 192,
      157, 39, 78, 156, 37, 74, 148, 53, 106, 212, 181, 119, 238, 193, 159, 35,
      70, 140, 5, 10, 20, 40, 80, 160, 93, 186, 105, 210, 185, 111, 222, 161,
      95, 190, 97, 194, 153, 47, 94, 188, 101, 202, 137, 15, 30, 60, 120, 240,
      253, 231, 211, 187, 107, 214, 177, 127, 254, 225, 223, 163, 91, 182, 113, 226,
      217, 175, 67, 134, 17, 34, 68, 136, 13, 26, 52, 104, 208, 189, 103, 206,
      129, 31, 62, 124, 248, 237, 199, 147, 59, 118, 236, 197, 151, 51, 102, 204,
      133, 23, 46, 92, 184, 109, 218, 169, 79, 158, 33, 66, 132, 21, 42, 84,
      168, 77, 154, 41, 82, 164, 85, 170, 73, 146, 57, 114, 228, 213, 183, 115,
      230, 209, 191, 99, 198, 145, 63, 126, 252, 229, 215, 179, 123, 246, 241, 255,
      227, 219, 171, 75, 150, 49, 98, 196, 149, 55, 110, 220, 165, 87, 174, 65,
      130, 25, 50, 100, 200, 141, 7, 14, 28, 56, 112, 224, 221, 167, 83, 166,
      81, 162, 89, 178, 121, 242, 249, 239, 195, 155, 43, 86, 172, 69, 138, 9,
      18, 36, 72, 144, 61, 122, 244, 245, 247, 243, 251, 235, 203, 139, 11, 22,
      44, 88, 176, 125, 250, 233, 207, 131, 27, 54, 108, 216, 173, 71, 142, 1,
      2, 4, 8, 16, 32, 64, 128, 29, 58, 116, 232, 205, 135, 19, 38, 76,
      152, 45, 90, 180, 117, 234, 201, 143, 3, 6, 12, 24, 48, 96, 192, 157,
      39, 78, 156, 37, 74, 148, 53, 106, 212, 181, 119, 238, 193, 159, 35, 70,
      140, 5, 10, 20, 40, 80, 160, 93, 186, 105, 210, 185, 111, 222, 161, 95,
      190, 97, 194, 153, 47, 94, 188, 101, 202, 137, 15, 30, 60, 120, 240, 253,
      231, 211, 187, 107, 214, 177, 127, 254, 225, 223, 163, 91, 182, 113, 226, 217,
      175, 67, 134, 17, 34, 68, 136, 13, 26, 52, 104, 208, 189, 103, 206, 129,
      31, 62, 124, 248, 237, 199, 147, 59, 118, 236, 197, 151, 51, 102, 204, 133,
      23, 46, 92, 184, 109, 218, 169, 79, 158, 33, 66, 132, 21, 42, 84, 168,
      77, 154, 41, 82, 164, 85, 170, 73, 146, 57, 114, 228, 213, 183, 115, 230,
      209, 191, 99, 198, 145, 63, 126, 252, 229, 215, 179, 123, 246, 241, 255, 227,
      219, 171, 75, 150, 49, 98, 196, 149, 55, 110, 220, 165, 87, 174, 65, 130,
      25, 50, 100, 200, 141, 7, 14, 28, 56, 112, 224, 221, 167, 83, 166, 81,
      162, 89, 178, 121, 242, 249, 239, 195, 155, 43, 86, 172, 69, 138, 9, 18,
      36, 72, 144, 61, 122, 244, 245, 247, 243, 251, 235, 203, 139, 11, 22, 44,
      88, 176, 125, 250, 233, 207, 131, 27, 54, 108, 216, 173, 71, 142>>

GF256_zero == 0
GF256_one == 1
\* primitive_element(): x
GF256_primitive_element == 2

\* bit i of the byte a
bit(a, i) == (a \div (2 ^ i)) % 2
\* u8 ^ u8
xor(a, b) ==
    LET d(i) == IF bit(a, i) # bit(b, i) THEN 2 ^ i ELSE 0
    IN  d(0) + d(1) + d(2) + d(3) + d(4) + d(5) + d(6) + d(7)

GF256_add(a, b) == xor(a, b)
GF256_sub(a, b) == xor(a, b)

\* impl Neg: the element itself
GF256_neg(a) == a

\* the exponent taken from the order instead of the order less one
GF256_inv_off_by_one(a) ==
    IF a = GF256_zero THEN None
    ELSE Some(GF256_EXP_TABLE[(GF256_ORDER - GF256_LOG_TABLE[a + 1]) + 1])

GF256_inv(a) ==
    IF a = GF256_zero THEN None
    ELSE Some(GF256_EXP_TABLE[((GF256_ORDER - 1) - GF256_LOG_TABLE[a + 1]) + 1])

\* the tables consulted without the test for zero
GF256_mul_no_zero_test(a, b) ==
    GF256_EXP_TABLE[(GF256_LOG_TABLE[a + 1] + GF256_LOG_TABLE[b + 1]) + 1]

\* the table consulted one entry past the sum of the logarithms
GF256_mul_index_off_by_one(a, b) ==
    IF a = GF256_zero \/ b = GF256_zero THEN GF256_zero
    ELSE GF256_EXP_TABLE[(GF256_LOG_TABLE[a + 1] + GF256_LOG_TABLE[b + 1] + 1) + 1]

\* the logarithms added as bytes: the sum wraps at 256
GF256_mul_sum_wraps(a, b) ==
    IF a = GF256_zero \/ b = GF256_zero THEN GF256_zero
    ELSE GF256_EXP_TABLE[((GF256_LOG_TABLE[a + 1] + GF256_LOG_TABLE[b + 1]) % 256) + 1]

GF256_mul(a, b) ==
    IF a = GF256_zero \/ b = GF256_zero THEN GF256_zero
    ELSE GF256_EXP_TABLE[(GF256_LOG_TABLE[a + 1] + GF256_LOG_TABLE[b + 1]) + 1]

\* Div: rhs.inv().map(|rhs_inv| self * rhs_inv)
GF256_div(a, b) ==
    LET rhs_inv == GF256_inv(b)
    IN  IF rhs_inv = None THEN None ELSE Some(GF256_mul(a, unwrap(rhs_inv)))

----------------------------------------------------------------------------
(* The stand-alone GF(2^8) decoder (src/src/decode.rs).  Its packets carry *)
(* GF256 elements; a symbol is one byte.                                   *)

MAX_GENERATION_SIZE == 256

\* RLNCError::InvalidCodingVectorLength as this decoder raises it, without fields
Err_InvalidCodingVectorLength_unit == [kind |-> "Err", err |-> "InvalidCodingVectorLength"]

\* the (col, _) of leading_coefficient(): the first non-zero coefficient
GF_leading_coefficient(p) ==
    LET nz == {i \in 1..Len(p.coding_vector) : p.coding_vector[i] # GF256_zero}
    IN  IF nz = {} THEN None ELSE Some(CHOOSE i \in nz : \A j \in nz : i <= j)

GFDecoder_new(chunk_size, generation_size) ==
    IF chunk_size = 0 THEN Err_ZeroChunkCount
    ELSE IF generation_size = 0 THEN Err_ZeroPacketCount
    ELSE IF generation_size > MAX_GENERATION_SIZE THEN Err_InvalidCodingVectorLength_unit
    ELSE Ok([chunk_size |-> chunk_size,
             generation_size |-> generation_size,
             data |-> << >>,
             pivot_rows |-> Vec([c \in 1..MAX_GENERATION_SIZE |-> None]),
             rank |-> 0])

RECURSIVE ascending(_)
\* the elements of a set of numbers in increasing order
ascending(S) ==
    IF S = {} THEN << >>
    ELSE LET lo == CHOOSE x \in S : \A y \in S : x <= y
         IN  <<lo>> \o ascending(S \ {lo})

\* pivot_rows.iter().enumerate().filter_map(..).take(generation_size): the columns
GF_pivot_columns(d) ==
    LET occupied == ascending({c \in 1..Len(d.pivot_rows) : is_some(d.pivot_rows[c])})
    IN  SubSeq(occupied, 1, Min(Len(occupied), d.generation_size))

\* subtract_row: the first generation_size coefficients and chunk_size symbols;
\* an index past the end of either packet panics
GF_subtract_row(d, dst, src, factor) ==
    IF \/ Len(dst.coding_vector) < d.generation_size
       \/ Len(src.coding_vector) < d.generation_size
       \/ Len(dst.data) < d.chunk_size
       \/ Len(src.data) < d.chunk_size
    THEN [packet |-> dst, panic |-> TRUE]
    ELSE [packet |->
            Packet(Vec([i \in 1..Len(dst.coding_vector) |->
                        IF i <= d.generation_size
                        THEN GF256_sub(dst.coding_vector[i], GF256_mul(factor, src.coding_vector[i]))
                        ELSE dst.coding_vector[i]]),
                   Vec([i \in 1..Len(dst.data) |->
                        IF i <= d.chunk_size
                        THEN GF256_sub(dst.data[i], GF256_mul(factor, src.data[i]))
                        ELSE dst.data[i]])),
          panic |-> FALSE]

\* the loop of eliminate_packet over the pivot columns cols, from the k-th on
RECURSIVE GF_eliminate_from(_, _, _, _)
GF_eliminate_from(d, packet, cols, k) ==
    IF k > Len(cols) THEN [packet |-> packet, panic |-> FALSE]
    ELSE LET col == cols[k]
             row == unwrap(d.pivot_rows[col])
         IN  IF col > Len(packet.coding_vector) THEN [packet |-> packet, panic |-> TRUE]
             ELSE IF packet.coding_vector[col] = GF256_zero
             THEN GF_eliminate_from(d, packet, cols, k + 1)
             ELSE LET pivot_row == d.data[row]
                      factor == GF256_div(packet.coding_vector[col], pivot_row.coding_vector[col])
                      sub == GF_subtract_row(d, packet, pivot_row, unwrap(factor))
                  IN  IF factor = None THEN GF_eliminate_from(d, packet, cols, k + 1)
                      ELSE IF sub.panic THEN sub
                      ELSE GF_eliminate_from(d, sub.packet, cols, k + 1)

GF_eliminate_packet(d, packet) == GF_eliminate_from(d, packet, GF_pivot_columns(d), 1)

GF_back_substitute(d, new_row_idx) ==
    LET new_row == d.data[new_row_idx]
        lc == GF_leading_coefficient(new_row)
    IN  IF lc = None THEN d
        ELSE LET new_pivot_col == unwrap(lc) IN
             [d EXCEPT !.data =
                Vec([i \in 1..Len(d.data) |->
                    IF i < new_row_idx /\ d.data[i].coding_vector[new_pivot_col] # GF256_zero
                    THEN GF_subtract_row(d, d.data[i], new_row,
                                         d.data[i].coding_vector[new_pivot_col]).packet
                    ELSE d.data[i]])]

GF_decode_final(d) ==
    LET cols == GF_pivot_columns(d)
        chunks == Vec([c \in 1..d.generation_size |->
                     IF c \in {cols[k] : k \in 1..Len(cols)}
                     THEN SubSeq(d.data[unwrap(d.pivot_rows[c])].data, 1, d.chunk_size)
                     ELSE Vec([i \in 1..d.chunk_size |-> 0])])
        decoded == concat(chunks)
        boundary_pos == rposition(decoded, BOUNDARY_MARKER)
    IN  IF boundary_pos = None THEN Err_InvalidEncoding
        ELSE Ok_Some(SubSeq(decoded, 1, unwrap(boundary_pos) - 1))

GFDecoder_decode(d, packet) ==
    IF Len(packet.coding_vector) # d.generation_size
    THEN [decoder |-> d, ret |-> Err_InvalidCodingVectorLength_unit]
    ELSE LET e == GF_eliminate_packet(d, packet)
             lc == GF_leading_coefficient(e.packet)
             col == unwrap(lc)
             inv_coeff == GF256_inv(e.packet.coding_vector[col])
             normalized ==
                 IF inv_coeff = None THEN e.packet
                 ELSE Packet(Vec([i \in 1..Len(e.packet.coding_vector) |->
                                GF256_mul(e.packet.coding_vector[i], unwrap(inv_coeff))]),
                             Vec([i \in 1..Len(e.packet.data) |->
                                IF i <= d.chunk_size
                                THEN GF256_mul(e.packet.data[i], unwrap(inv_coeff))
                                ELSE e.packet.data[i]]))
             stored == [d EXCEPT !.pivot_rows[col] = Some(Len(d.data) + 1),
                                 !.data = Append(d.data, normalized),
                                 !.rank = @ + 1]
             after == IF is_some(lc) /\ d.pivot_rows[col] = None
                      THEN GF_back_substitute(stored, Len(stored.data))
                      ELSE d
         IN  IF e.panic THEN [decoder |-> d, ret |-> Panic]
             ELSE IF is_some(lc) /\ d.pivot_rows[col] = None /\ Len(e.packet.data) < d.chunk_size
             THEN [decoder |-> d, ret |-> Panic]
             ELSE IF after.rank >= after.generation_size
             THEN [decoder |-> after, ret |-> GF_decode_final(after)]
             ELSE [decoder |-> after, ret |-> Ok_None]

GFDecoder_rank(d) == d.rank

----------------------------------------------------------------------------
(* Inputs.                                                                 *)

RECURSIVE SeqsUpTo(_, _)
\* the sequences over S of length at most n
SeqsUpTo(S, n) ==
    IF n = 0 THEN {<< >>}
    ELSE LET shorter == SeqsUpTo(S, n - 1)
         IN  shorter \cup {Append(q, x) : q \in {r \in shorter : Len(r) = n - 1}, x \in S}

Payloads == SeqsUpTo(PayloadBytes, MaxLen) \ {<< >>}
CodingVectors(n) == {Vec(v) : v \in [1..n -> Coeffs]}
\* vectors one too short and one too long
WrongLength(n) ==
    {Vec([i \in 1..(n + 1) |-> 1])} \cup (IF n > 0 THEN {Vec([i \in 1..(n - 1) |-> 1])} ELSE {})

\* coding vectors that are zero past their first coefficient
FirstOnly(n) == {v \in CodingVectors(n) : \A i \in 2..n : v[i] = 0}

\* packets that arrive from the transport without having been produced by the
\* encoder: a coding vector that is zero, or a multiple of the first unit
\* vector, or of a wrong length, over constant data of the right length
ReceivedPackets ==
    {Packet(v, Vec([j \in 1..symbol_count(encoder) |-> d])) :
        v \in FirstOnly(encoder.chunk_count) \cup WrongLength(encoder.chunk_count),
        d \in ForgedSymbols}

\* the vectors handed to encode_with_vector
EncVectors(n) == {Vec(v) : v \in [1..n -> EncCoeffs]} \cup WrongLength(n)

\* the data, chunk counts and chunk sizes handed to the constructors
ConstructorData == SeqsUpTo(PayloadBytes, MaxLen)
ChunkCounts == 0..MaxChunks
ChunkSizes == 0..(MaxLen + 2)

\* the packets handed to the GF(2^8) decoder
GFPackets ==
    {Packet(v, Vec([j \in 1..gf.chunk_size |-> b])) :
        v \in {Vec(w) : w \in [1..gf.generation_size -> GFCoeffs]}
              \cup WrongLength(gf.generation_size),
        b \in GFBytes}

----------------------------------------------------------------------------
(* The system: one encoder, the two decoders built with the encoder's      *)
(* chunk_size and chunk_count, and a caller that hands packets to decode.  *)

Init ==
    /\ payload \in Payloads
    /\ \E chunk_count \in 1..MaxChunks :
          /\ encoder = SecureEncoder_new(payload, chunk_count).value
          /\ decoder = Decoder_new(encoder.chunk_size, chunk_count).value
          /\ gf = GFDecoder_new(encoder.chunk_size, chunk_count).value
    /\ encoded = NoCall
    /\ vector = << >>
    /\ ret = NoCall
    /\ last = None
    /\ fed = 0
    /\ rank_before = 0
    /\ call = [op |-> "none"]

\* decoder.decode(packet), with the caller's record of the call
Feed(packet) ==
    /\ ret.kind # "Panic"
    /\ LET r == Decoder_decode(decoder, packet) IN
          /\ decoder' = r.decoder
          /\ ret' = r.ret
    /\ last' = Some(packet)
    /\ fed' = IF last = Some(packet) THEN Min(fed + 1, MaxFeeds) ELSE 1
    /\ rank_before' = Decoder_rank(decoder)
    /\ call' = [op |-> "Decoder::decode"]
    /\ UNCHANGED <<payload, encoder, encoded, vector, gf>>

\* decode of the packet the encoder produces for coding vector v
DecodeEncoded(v) ==
    LET coded == encode_with_vector(encoder, v) IN
    /\ coded.kind = "Ok"
    /\ Feed(coded.value)

\* decode of a packet that arrived from elsewhere
DecodeReceived(received) == Feed(received)

Next ==
    \/ \E v \in CodingVectors(encoder.chunk_count) : DecodeEncoded(v)
    \/ \E received \in ReceivedPackets : DecodeReceived(received)

Spec == Init /\ [][Next]_vars

\* the same system when every packet handed to decode comes from the encoder
NextCoded == \E v \in CodingVectors(encoder.chunk_count) : DecodeEncoded(v)

SpecCoded == Init /\ [][NextCoded]_vars

\* encoder.encode_with_vector(v)
EncodeWithVector(v) ==
    /\ encoded' = encode_with_vector(encoder, v)
    /\ vector' = v
    /\ call' = [op |-> "encode_with_vector"]
    /\ UNCHANGED <<payload, encoder, decoder, gf, ret, last, fed, rank_before>>

NextEnc == \E v \in EncVectors(encoder.chunk_count) : EncodeWithVector(v)

SpecEnc == Init /\ [][NextEnc]_vars

\* encoder.encode_with_vector(v) of a build with the feature "parallel"
EncodeWithVectorParallel(v) ==
    /\ encoded' \in encode_with_vector_parallel(encoder, v)
    /\ vector' = v
    /\ call' = [op |-> "encode_with_vector (parallel)"]
    /\ UNCHANGED <<payload, encoder, decoder, gf, ret, last, fed, rank_before>>

NextPar == \E v \in EncVectors(encoder.chunk_count) : EncodeWithVectorParallel(v)

SpecPar == Init /\ [][NextPar]_vars

\* decode of the GF(2^8) decoder, with the caller's record of the call
GFDecode(packet) ==
    /\ ret.kind # "Panic"
    /\ LET r == GFDecoder_decode(gf, packet) IN
          /\ gf' = r.decoder
          /\ ret' = r.ret
    /\ last' = Some(packet)
    /\ fed' = IF last = Some(packet) THEN Min(fed + 1, MaxFeeds) ELSE 1
    /\ rank_before' = GFDecoder_rank(gf)
    /\ call' = [op |-> "GF256 Decoder::decode"]
    /\ UNCHANGED <<payload, encoder, encoded, vector, decoder>>

NextGF == \E packet \in GFPackets : GFDecode(packet)

\* the GF(2^8) decoder takes nothing from the payload but the chunk size its
\* length gives: one payload of each length
InitGF == Init /\ \A i \in 1..Len(payload) : payload[i] = 65

SpecGF == InitGF /\ [][NextGF]_vars

\* a packet for the GF(2^8) decoder whose data holds no marker: the first
\* unit vector over zero bytes
GFBlankPackets ==
    {Packet(Vec([i \in 1..gf.generation_size |-> IF i = 1 THEN GF256_one ELSE GF256_zero]),
            Vec([j \in 1..gf.chunk_size |-> 0]))}

\* a caller that decodes with one of the two decoders, and stays with it
NextFinal ==
    \/ /\ call.op # "GF256 Decoder::decode"
       /\ Next
    \/ /\ call.op # "Decoder::decode"
       /\ \E packet \in GFPackets \cup GFBlankPackets : GFDecode(packet)

\* payloads that hold a marker of their own: one ends in it, one in a zero
InitFinal == Init /\ payload \in {<<BOUNDARY_MARKER>>, <<BOUNDARY_MARKER, 0>>}

SpecFinal == InitFinal /\ [][NextFinal]_vars

\* every element of GF(2^8)
GF256_elements == 0..(GF256_ORDER - 1)

\* a + b, a - b, a * b, a / b, a.inv() and -a, with the caller's record
GFAdd(a, b) ==
    /\ call' = [op |-> "GF256::add", a |-> a, b |-> b, result |-> GF256_add(a, b)]
    /\ UNCHANGED <<payload, encoder, encoded, decoder, gf, ret, last, fed, rank_before, vector>>
GFSub(a, b) ==
    /\ call' = [op |-> "GF256::sub", a |-> a, b |-> b, result |-> GF256_sub(a, b)]
    /\ UNCHANGED <<payload, encoder, encoded, decoder, gf, ret, last, fed, rank_before, vector>>
GFMul(a, b) ==
    /\ call' = [op |-> "GF256::mul", a |-> a, b |-> b, result |-> GF256_mul(a, b)]
    /\ UNCHANGED <<payload, encoder, encoded, decoder, gf, ret, last, fed, rank_before, vector>>
GFDiv(a, b) ==
    /\ call' = [op |-> "GF256::div", a |-> a, b |-> b, result |-> GF256_div(a, b)]
    /\ UNCHANGED <<payload, encoder, encoded, decoder, gf, ret, last, fed, rank_before, vector>>
GFInv(a) ==
    /\ call' = [op |-> "GF256::inv", a |-> a, result |-> GF256_inv(a)]
    /\ UNCHANGED <<payload, encoder, encoded, decoder, gf, ret, last, fed, rank_before, vector>>
GFNeg(a) ==
    /\ call' = [op |-> "GF256::neg", a |-> a, result |-> GF256_neg(a)]
    /\ UNCHANGED <<payload, encoder, encoded, decoder, gf, ret, last, fed, rank_before, vector>>

\* a run computes one result: no result depends on an earlier one
NextField ==
    \/ call.op = "none" /\ \E a \in GF256_elements, b \in GF256_elements : GFAdd(a, b)
    \/ call.op = "none" /\ \E a \in GF256_elements, b \in GF256_elements : GFSub(a, b)
    \/ call.op = "none" /\ \E a \in GF256_elements, b \in GF256_elements : GFMul(a, b)
    \/ call.op = "none" /\ \E a \in GF256_elements, b \in GF256_elements : GFDiv(a, b)
    \/ call.op = "none" /\ \E a \in GF256_elements : GFInv(a)
    \/ call.op = "none" /\ \E a \in GF256_elements : GFNeg(a)

\* the powers of the primitive element taken in turn, through two cycles of
\* the multiplicative group
PowerSteps == 2 * (GF256_ORDER - 1)

\* let mut current = primitive
PrimitivePower ==
    /\ call.op = "none"
    /\ call' = [op |-> "GF256::primitive_element", n |-> 1,
                current |-> GF256_primitive_element]
    /\ UNCHANGED <<payload, encoder, encoded, decoder, gf, ret, last, fed, rank_before, vector>>

\* current = current * primitive
MultiplyByPrimitive ==
    /\ call.op = "GF256::primitive_element"
    /\ call.n < PowerSteps
    /\ call' = [call EXCEPT !.n = @ + 1,
                            !.current = GF256_mul(@, GF256_primitive_element)]
    /\ UNCHANGED <<payload, encoder, encoded, decoder, gf, ret, last, fed, rank_before, vector>>

NextPower == PrimitivePower \/ MultiplyByPrimitive

\* what every constructor call leaves as it was
ConstructorFrame ==
    UNCHANGED <<payload, encoder, encoded, decoder, gf, ret, last, fed, rank_before, vector>>

\* SecureEncoder::new(data, chunk_count)
NewSecureEncoder(data, chunk_count) ==
    /\ call' = [op |-> "SecureEncoder::new", data |-> data, chunk_count |-> chunk_count,
                result |-> SecureEncoder_new(data, chunk_count)]
    /\ ConstructorFrame

\* SecureEncoder::prepare(data, chunk_count)
Prepare(data, chunk_count) ==
    /\ call' = [op |-> "SecureEncoder::prepare", data |-> data, chunk_count |-> chunk_count,
                result |-> prepare(data, chunk_count)]
    /\ ConstructorFrame

\* Chunks::new(data, chunk_count)
NewChunks(data, chunk_count) ==
    /\ call' = [op |-> "Chunks::new", data |-> data, chunk_count |-> chunk_count,
                result |-> Chunks_new(data, chunk_count)]
    /\ ConstructorFrame

\* Decoder::new(chunk_size, chunk_count) of crates/rlnc
NewDecoder(chunk_size, chunk_count) ==
    /\ call' = [op |-> "Decoder::new", chunk_size |-> chunk_size, chunk_count |-> chunk_count,
                result |-> Decoder_new(chunk_size, chunk_count)]
    /\ ConstructorFrame

\* Decoder::new(chunk_size, generation_size) of src/src/decode.rs
NewGFDecoder(chunk_size, generation_size) ==
    /\ call' = [op |-> "GF256 Decoder::new", chunk_size |-> chunk_size,
                chunk_count |-> generation_size,
                result |-> GFDecoder_new(chunk_size, generation_size)]
    /\ ConstructorFrame

NextNew ==
    \/ \E data \in ConstructorData, chunk_count \in ChunkCounts :
          NewSecureEncoder(data, chunk_count)
    \/ \E data \in ConstructorData, chunk_count \in ChunkCounts : Prepare(data, chunk_count)
    \/ \E data \in ConstructorData, chunk_count \in ChunkCounts : NewChunks(data, chunk_count)
    \/ \E chunk_size \in ChunkSizes, chunk_count \in ChunkCounts :
          NewDecoder(chunk_size, chunk_count)
    \/ \E chunk_size \in ChunkSizes, generation_size \in ChunkCounts :
          NewGFDecoder(chunk_size, generation_size)

\* the constructors are called by a caller that holds one encoder already
InitNew == Init /\ payload = <<65>> /\ encoder.chunk_count = 1

SpecNew == InitNew /\ [][NextNew]_vars

\* the field is used by a caller that holds one encoder and its decoders
SpecField == InitNew /\ [][NextField]_vars

SpecPower == InitNew /\ [][NextPower]_vars

\* every byte string that fits one symbol
ByteStrings == SeqsUpTo(0..255, SAFE_CAPACITY)

\* F::from_bytes(b)
FromBytes(b) ==
    /\ call' = [op |-> "Field::from_bytes", b |-> b, symbol |-> Field_from_bytes(b)]
    /\ UNCHANGED <<payload, encoder, encoded, decoder, gf, ret, last, fed, rank_before, vector>>

\* symbol.to_bytes() of the symbol packed last
ToBytes ==
    /\ call.op = "Field::from_bytes"
    /\ call' = [op |-> "Field::to_bytes", b |-> call.b, symbol |-> call.symbol,
                result |-> Field_to_bytes(call.symbol)]
    /\ UNCHANGED <<payload, encoder, encoded, decoder, gf, ret, last, fed, rank_before, vector>>

\* a run packs one byte string and unpacks the symbol
NextBytes ==
    \/ call.op = "none" /\ \E b \in ByteStrings : FromBytes(b)
    \/ ToBytes

SpecBytes == InitNew /\ [][NextBytes]_vars

----------------------------------------------------------------------------
(* Linear dependence, decided from determinants and not by elimination.    *)

drop(q, j) == Vec([i \in 1..(Len(q) - 1) |-> IF i < j THEN q[i] ELSE q[i + 1]])
\* M without its first row and its j-th column
Minor(M, j) == Vec([r \in 1..(Len(M) - 1) |-> drop(M[r + 1], j)])

RECURSIVE Det(_)
RECURSIVE DetSum(_, _)
\* the first j terms of the expansion of Det(M) along the first row
DetSum(M, j) ==
    IF j = 0 THEN Scalar_ZERO
    ELSE LET term == Scalar_mul(M[1][j], Det(Minor(M, j)))
             rest == DetSum(M, j - 1)
         IN  IF j % 2 = 1 THEN Scalar_add(rest, term) ELSE Scalar_sub(rest, term)
Det(M) == IF M = << >> THEN Scalar_ONE ELSE DetSum(M, Len(M))

Submatrix(rows, R, Cs) ==
    Vec([a \in 1..Len(R) |-> Vec([b \in 1..Len(Cs) |-> rows[R[a]][Cs[b]]])])

\* some square submatrix of size k of rows (vectors of length n) has a
\* non-zero determinant
HasMinor(rows, n, k) ==
    \E R \in {X \in SUBSET (1..Len(rows)) : Cardinality(X) = k} :
       \E Cs \in {Y \in SUBSET (1..n) : Cardinality(Y) = k} :
          Det(Submatrix(rows, ascending(R), ascending(Cs))) # Scalar_ZERO

RECURSIVE RankFrom(_, _, _)
\* the largest size from k - 1 on that has such a submatrix
RankFrom(rows, n, k) ==
    IF k > Min(Len(rows), n) THEN k - 1
    ELSE IF HasMinor(rows, n, k) THEN RankFrom(rows, n, k + 1)
    ELSE k - 1

\* the rank of the vectors rows, each of length n
RankOf(rows, n) == RankFrom(rows, n, 1)

IsLinearCombination(v, rows) == RankOf(Append(rows, v), Len(v)) = RankOf(rows, Len(v))

\* the coding vectors of the rows a decoder holds
StoredVectors(d) == Vec([i \in 1..Len(d.matrix.data) |-> d.matrix.data[i].coding_vector])

Called == ret # NoCall
Completing == Called /\ rank_before = decoder.chunk_count - 1
                     /\ Decoder_rank(decoder) = decoder.chunk_count
LastVector == unwrap(last).coding_vector
Bytes(q) == {q[i] : i \in 1..Len(q)}

----------------------------------------------------------------------------
(* The claims.                                                             *)

\* C1: when the decoder is fed packets of the encoder built from (payload,
\* chunk_count), the decode call that brings the rank from chunk_count - 1 to
\* chunk_count returns Some(bytes) with bytes equal to the payload.
C1_RoundTrip == Completing => ret = Ok_Some(payload)

C1_Witness ==
    /\ Completing
    /\ ret = Ok_Some(payload)
    /\ decoder.chunk_count >= 2
    /\ {0, BOUNDARY_MARKER} \subseteq Bytes(payload)

\* C2: a decode call with a packet of the right length raises the rank by
\* exactly one when the packet's coding vector is not a linear combination of
\* the coding vectors of the stored rows, leaves the rank as it is when it is
\* one, and the rank never passes chunk_count.
C2_RankCountsIndependentVectors ==
    [][LET v == unwrap(last').coding_vector IN
       Len(v) = decoder.chunk_count =>
          /\ Decoder_rank(decoder') = Decoder_rank(decoder) +
                (IF IsLinearCombination(v, StoredVectors(decoder)) THEN 0 ELSE 1)
          /\ Decoder_rank(decoder') <= decoder.chunk_count]_vars

\* a sum of two accepted packets was handed in and the rank stayed at two
C2_Witness ==
    /\ Called
    /\ ret = Ok_None
    /\ rank_before = 2
    /\ Decoder_rank(decoder) = 2
    /\ decoder.chunk_count = 3
    /\ Cardinality({i \in 1..Len(LastVector) : LastVector[i] # 0}) = 2

\* C3 as amended: decode returns Some only on the call that brings the rank
\* from chunk_count - 1 to chunk_count; that call returns Some, or fails with
\* InvalidEncoding when the rebuilt bytes hold no marker; a successful call
\* after which the rank is below chunk_count returns Ok(None); can_decode()
\* holds exactly when the rank is chunk_count.
C3_SomeOnlyOnCompletingCall ==
    /\ Decoder_can_decode(decoder) <=> Decoder_rank(decoder) = decoder.chunk_count
    /\ Called =>
         /\ ret.kind = "Some" => Completing
         /\ Completing => (ret.kind = "Some" \/ ret = Err_InvalidEncoding)
         /\ ret = Err_InvalidEncoding => Completing
         /\ (ret.kind \in {"Some", "None"} /\ Decoder_rank(decoder) < decoder.chunk_count)
               => ret = Ok_None

C3_Witness ==
    /\ Completing
    /\ ret.kind = "Some"
    /\ decoder.chunk_count = 3
    /\ Decoder_can_decode(decoder)

\* C3 as stated: decode returns Some on exactly the call that brings the rank
\* from chunk_count - 1 to chunk_count, Ok(None) on every successful call
\* after which the rank is below chunk_count, and can_decode() holds exactly
\* when the rank is chunk_count.
C3_SomeOnExactlyTheCompletingCall ==
    /\ Decoder_can_decode(decoder) <=> Decoder_rank(decoder) = decoder.chunk_count
    /\ Called =>
         /\ ret.kind = "Some" <=> Completing
         /\ (ret.kind \in {"Some", "None"} /\ Decoder_rank(decoder) < decoder.chunk_count)
               => ret = Ok_None

\* C4: while the rank is below chunk_count, decode of a packet of the right
\* length whose coding vector is a linear combination of the stored rows'
\* (the zero vector included, whatever the data) returns Ok(None) and leaves
\* the rank, the pivot table and the stored rows as they were.
C4_DependentPacketIgnored ==
    [][LET v == unwrap(last').coding_vector IN
       (/\ Len(v) = decoder.chunk_count
        /\ Decoder_rank(decoder) < decoder.chunk_count
        /\ IsLinearCombination(v, StoredVectors(decoder)))
       => (ret' = Ok_None /\ decoder' = decoder)]_vars

\* a packet with a zero coding vector and non-zero data was handed in while
\* rows were stored and the rank was below chunk_count
C4_Witness ==
    /\ Called
    /\ ret = Ok_None
    /\ rank_before = Decoder_rank(decoder)
    /\ Decoder_rank(decoder) \in 1..(decoder.chunk_count - 1)
    /\ \A i \in 1..Len(LastVector) : LastVector[i] = 0
    /\ Len(LastVector) = decoder.chunk_count
    /\ \E j \in 1..Len(unwrap(last).data) : unwrap(last).data[j] # 0

\* C5: over every decode call the rank never falls and never passes
\* chunk_count, and once it is chunk_count every later call leaves it there.
C5_RankMonotone ==
    [][/\ Decoder_rank(decoder') >= Decoder_rank(decoder)
       /\ Decoder_rank(decoder') <= decoder.chunk_count
       /\ Decoder_rank(decoder) = decoder.chunk_count
             => Decoder_rank(decoder') = decoder.chunk_count]_vars

\* a call made after completion with a packet of the right length
C5_Witness ==
    /\ Called
    /\ rank_before = decoder.chunk_count
    /\ Decoder_rank(decoder) = decoder.chunk_count
    /\ Len(LastVector) = decoder.chunk_count
    /\ \E i \in 1..Len(LastVector) : LastVector[i] # 0

\* C6: in the matrix decoder, when a packet of the right length is handed to
\* decode a second time in a row, the second call returns Ok(None) and leaves
\* the rank as it was, also when the first call completed the decode.
C6_SecondFeedReturnsNone ==
    (fed >= 2 /\ Len(LastVector) = decoder.chunk_count)
       => (ret = Ok_None /\ Decoder_rank(decoder) = rank_before)

\* with chunk_count = 1 the first call of a non-zero packet completes
C6_Witness ==
    /\ fed >= 2
    /\ decoder.chunk_count = 1
    /\ LastVector = <<1>>
    /\ Decoder_rank(decoder) = 1
    /\ ret = Ok_None

\* C7: in the GF(2^8) decoder, when a packet of the right length is handed to
\* decode a second time in a row, the second call returns None and leaves the
\* rank as it was, in every decoder state.
C7_GFSecondFeedReturnsNone ==
    (fed >= 2 /\ Len(LastVector) = gf.generation_size)
       => (ret = Ok_None /\ GFDecoder_rank(gf) = rank_before)

\* C8: decode of a packet whose coding vector has a length other than
\* chunk_count fails with InvalidCodingVectorLength(that length, chunk_count)
\* and leaves the rank, the pivot table and the row buffer as they were.
C8_WrongLengthRejected ==
    [][LET v == unwrap(last').coding_vector IN
       Len(v) # decoder.chunk_count
       => /\ ret'.kind = "Err"
          /\ ret'.err = "InvalidCodingVectorLength"
          /\ ret'.got = Len(v)
          /\ ret'.expected = decoder.chunk_count
          /\ decoder' = decoder]_vars

\* a packet one coefficient too long was handed in while rows were stored
C8_Witness ==
    /\ Called
    /\ Len(LastVector) = decoder.chunk_count + 1
    /\ ret.kind = "Err"
    /\ ret.got = decoder.chunk_count + 1
    /\ ret.expected = decoder.chunk_count
    /\ Decoder_rank(decoder) >= 1

\* the unit coding vector of column k
Unit(n, k) == Vec([i \in 1..n |-> IF i = k THEN Scalar_ONE ELSE Scalar_ZERO])

RECURSIVE FeedUnits(_, _)
\* the result of the last decode call when the encoder's packets for the unit
\* vectors k, k + 1, .., chunk_count are handed to the decoder d in that order
FeedUnits(d, k) ==
    LET r == Decoder_decode(d, encode_with_vector(encoder, Unit(d.chunk_count, k)).value)
    IN  IF k >= d.chunk_count THEN r.ret ELSE FeedUnits(r.decoder, k + 1)

\* C9: for a fixed encoder every sequence of decode calls that reaches rank
\* chunk_count returns the same bytes: the bytes a decoder returns are those a
\* fresh decoder returns for the unit vectors in column order.
C9_OrderIndependent ==
    ret.kind = "Some"
       => ret = FeedUnits(Decoder_new(encoder.chunk_size, encoder.chunk_count).value, 1)

\* the rows were accepted in another order than the columns, and a row other
\* than a unit vector was among the packets
C9_Witness ==
    /\ ret.kind = "Some"
    /\ decoder.chunk_count = 3
    /\ decoder.matrix.pivots # <<Some(1), Some(2), Some(3)>>
    /\ Cardinality({i \in 1..Len(LastVector) : LastVector[i] # 0}) = 3

RECURSIVE FullSum(_, _, _)
\* the sum over the chunks 1..i of v[i] times the j-th symbol of chunk i
FullSum(v, j, i) ==
    IF i = 0 THEN Scalar_ZERO
    ELSE Scalar_add(FullSum(v, j, i - 1), Scalar_mul(v[i], encoder.chunks[i].symbols[j]))

\* C10: encode_with_vector(v) fails with InvalidCodingVectorLength(|v|,
\* chunk_count) when |v| is not chunk_count; otherwise the packet carries v
\* and chunk_size / SAFE_CAPACITY data symbols, the j-th being the sum over
\* all chunks i of v[i] times the j-th symbol of chunk i, zero coefficients
\* included (so a zero v gives zero data).
C10_EncodeWithVector ==
    encoded # NoCall =>
       IF Len(vector) # encoder.chunk_count
       THEN /\ encoded.kind = "Err"
            /\ encoded.err = "InvalidCodingVectorLength"
            /\ encoded.got = Len(vector)
            /\ encoded.expected = encoder.chunk_count
       ELSE /\ encoded.kind = "Ok"
            /\ encoded.value.coding_vector = vector
            /\ Len(encoded.value.data) = encoder.chunk_size \div SAFE_CAPACITY
            /\ \A j \in 1..Len(encoded.value.data) :
                  encoded.value.data[j] = FullSum(vector, j, encoder.chunk_count)
            /\ (\A i \in 1..Len(vector) : vector[i] = 0)
                  => \A j \in 1..Len(encoded.value.data) : encoded.value.data[j] = 0

\* a zero coefficient ahead of a non-zero one, over a chunk that is not zero
C10_Witness ==
    /\ encoded # NoCall
    /\ encoded.kind = "Ok"
    /\ encoder.chunk_count = 3
    /\ vector = <<0, 2, 0>>
    /\ \E j \in 1..Len(encoded.value.data) : encoded.value.data[j] # 0

\* the bytes a chunk's symbols unpack to
Chunk_bytes(chunk) == scalars_to_bytes(chunk.symbols)

\* the chunks an encoder construction returned
BuiltChunks ==
    IF call.op = "Chunks::new" THEN call.result.value.inner ELSE call.result.value.chunks
\* the concatenation of their bytes
BuiltStream == concat(Vec([k \in 1..Len(BuiltChunks) |-> Chunk_bytes(BuiltChunks[k])]))
BuiltEncoder == call.op \in {"SecureEncoder::new", "Chunks::new"} /\ call.result.kind = "Ok"

\* C11: after SecureEncoder::new or Chunks::new from payload P and chunk
\* count C, chunk_size is the least multiple of SAFE_CAPACITY that is at
\* least ceil((|P| + 1) / C); there are exactly C chunks of chunk_size bytes;
\* and the bytes of the chunks, one after the other, are P, then one 0x81,
\* then zero bytes only, chunk_size * C bytes in all, so that the last 0x81
\* follows the last byte of P.
C11_ChunksHoldMarkedPayload ==
    BuiltEncoder =>
       LET P == call.data
           C == call.chunk_count
           size == call.result.value.chunk_size
       IN  /\ size % SAFE_CAPACITY = 0
           /\ size * C >= Len(P) + 1
           /\ (size - SAFE_CAPACITY) * C < Len(P) + 1
           /\ Len(BuiltChunks) = C
           /\ \A k \in 1..C : /\ BuiltChunks[k].size = size
                               /\ Len(Chunk_bytes(BuiltChunks[k])) = size
           /\ Len(BuiltStream) = size * C
           /\ SubSeq(BuiltStream, 1, Len(P)) = P
           /\ BuiltStream[Len(P) + 1] = BOUNDARY_MARKER
           /\ \A i \in (Len(P) + 2)..(size * C) : BuiltStream[i] = 0

\* more chunks than payload bytes, a payload that holds a marker and a zero
\* of its own, and padding behind the marker
C11_Witness ==
    /\ BuiltEncoder
    /\ call.op = "Chunks::new"
    /\ call.data = <<BOUNDARY_MARKER, 0>>
    /\ call.chunk_count = 3
    /\ Len(BuiltStream) = 6

\* C12: for every encoder and every coding vector of length chunk_count,
\* every result of the parallel reduction (one partial vector per non-zero
\* coefficient, summed element by element in any shape of the reduction tree
\* from all-zero identities) is the data vector encode_inner returns, also
\* when every coefficient is zero; so is the data of the packet a parallel
\* build returns.
C12_ParallelEqualsSequential ==
    (call.op = "encode_with_vector (parallel)" /\ Len(vector) = encoder.chunk_count)
       => /\ par_reduce(encoder, vector, 1, encoder.chunk_count)
                = {encode_inner(encoder, vector)}
          /\ encoded.kind = "Ok"
          /\ encoded.value.data = encode_inner(encoder, vector)

\* the reduction ran over three pairs, one of them skipped, and gave data
\* that is not zero
C12_Witness ==
    /\ call.op = "encode_with_vector (parallel)"
    /\ should_parallelize(encoder)
    /\ encoder.chunk_count = 3
    /\ vector = <<1, 0, 2>>
    /\ encoded.kind = "Ok"
    /\ \E j \in 1..Len(encoded.value.data) : encoded.value.data[j] # 0

\* the bytes read out of the pivot rows in column order, by either decoder
MatrixReadOut ==
    concat(Vec([c \in 1..decoder.chunk_count |->
                scalars_to_bytes(decoder.matrix.data[unwrap(decoder.matrix.pivots[c])].data)]))
GFReadOut ==
    concat(Vec([c \in 1..gf.generation_size |->
                SubSeq(gf.data[unwrap(gf.pivot_rows[c])].data, 1, gf.chunk_size)]))
GFCompleting == /\ call.op = "GF256 Decoder::decode"
                /\ rank_before = gf.generation_size - 1
                /\ GFDecoder_rank(gf) = gf.generation_size

\* r is what the final extraction owes for the bytes stream
Extracted(stream, r) ==
    IF BOUNDARY_MARKER \notin Bytes(stream) THEN r = Err_InvalidEncoding
    ELSE /\ r.kind = "Some"
         /\ Len(r.bytes) < Len(stream)
         /\ SubSeq(stream, 1, Len(r.bytes)) = r.bytes
         /\ stream[Len(r.bytes) + 1] = BOUNDARY_MARKER
         /\ \A i \in (Len(r.bytes) + 2)..Len(stream) : stream[i] # BOUNDARY_MARKER

\* C13: when a decode call brings the rank to chunk_count, the chunk_size *
\* chunk_count bytes read out of the pivot rows decide the result: without a
\* 0x81 among them the call fails with InvalidEncoding, and with one it
\* returns the bytes strictly before the last 0x81.  This holds for the
\* matrix decoder and for the GF(2^8) decoder.
C13_FinalExtraction ==
    /\ (call.op = "Decoder::decode" /\ Completing)
          => /\ Len(MatrixReadOut) = decoder.chunk_size * decoder.chunk_count
             /\ Extracted(MatrixReadOut, ret)
    /\ GFCompleting
          => /\ Len(GFReadOut) = gf.chunk_size * gf.generation_size
             /\ Extracted(GFReadOut, ret)

\* the matrix decoder completed on bytes without a marker
C13_Witness ==
    /\ call.op = "Decoder::decode"
    /\ Completing
    /\ BOUNDARY_MARKER \notin Bytes(MatrixReadOut)
    /\ ret = Err_InvalidEncoding

\* P ends in a 0x81 followed by one or more 0x00
EndsInMarkerAndZeros(P) ==
    \E k \in 1..(Len(P) - 1) :
       /\ P[k] = BOUNDARY_MARKER
       /\ \A i \in (k + 1)..Len(P) : P[i] = 0

\* C14 as amended: a payload whose last bytes are a 0x81 followed by one or
\* more 0x00 is reconstructed exactly: after encoding and full-rank
\* decoding, the returned bytes are the payload, its trailing zero bytes
\* included.
C14_TrailingZerosKept ==
    (call.op = "Decoder::decode" /\ Completing /\ EndsInMarkerAndZeros(payload))
       => /\ ret.kind = "Some"
          /\ ret.bytes = payload

C14_Witness ==
    /\ call.op = "Decoder::decode"
    /\ Completing
    /\ payload = <<BOUNDARY_MARKER, 0>>
    /\ decoder.chunk_count >= 2
    /\ ret.kind = "Some"
    /\ ret.bytes = <<BOUNDARY_MARKER, 0>>

\* C14 as stated: a payload whose last bytes are a 0x81 followed by one or
\* more 0x00 is not reconstructed exactly: after encoding and full-rank
\* decoding, the returned bytes have lost those trailing zero bytes.
C14_TrailingZerosLost ==
    (call.op = "Decoder::decode" /\ Completing /\ EndsInMarkerAndZeros(payload))
       => /\ ret.kind = "Some"
          /\ ret.bytes # payload
          /\ Len(ret.bytes) < Len(payload)

\* a packet within the contract of decoder d for the encoder's chunk size
InContract(d, p) ==
    /\ Len(p.coding_vector) = d.chunk_count
    /\ Len(p.data) = symbol_count(encoder)

\* every index held by the matrix of d is in bounds, and every stored pivot
\* coefficient is one
WellFormed(d) ==
    /\ Len(d.matrix.pivots) = d.chunk_count
    /\ d.matrix.rank = Len(d.matrix.data)
    /\ \A col \in 1..d.chunk_count :
          is_some(d.matrix.pivots[col]) =>
             LET row == unwrap(d.matrix.pivots[col]) IN
             /\ row \in 1..Len(d.matrix.data)
             /\ InContract(d, d.matrix.data[row])
             /\ d.matrix.data[row].coding_vector[col] = Scalar_ONE
             /\ leading_coefficient(d.matrix.data[row]) = Some(col)

\* C15: no decode call with a packet within the contract (coding vector of
\* length chunk_count, data of symbol_count symbols) panics: the inverses of
\* eliminate are taken of stored pivot coefficients, which are one, the
\* inverse of normalize of the packet's leading coefficient, which is not
\* zero, and every row, pivot and symbol index is in bounds, before the call
\* and after it.
C15_NoPanicInContract ==
    [][LET p == unwrap(last')
           reduced == eliminate(decoder.matrix, p)
           lc == leading_coefficient(reduced.packet)
       IN  InContract(decoder, p) =>
              /\ WellFormed(decoder)
              /\ ~reduced.panic
              /\ InContract(decoder, reduced.packet)
              /\ is_some(lc) => ~is_zero_vartime(reduced.packet.coding_vector[unwrap(lc)])
              /\ ret'.kind \in {"Some", "None", "Err"}
              /\ ret'.kind = "Err" => ret' = Err_InvalidEncoding
              /\ WellFormed(decoder')]_vars

\* a call accepted a packet that eliminate had reduced against a stored
\* row: the row it left holds a coefficient that no packet handed in has
C15_Witness ==
    /\ call.op = "Decoder::decode"
    /\ ret.kind \in {"Some", "None"}
    /\ rank_before >= 1
    /\ Decoder_rank(decoder) = rank_before + 1
    /\ \E i \in 1..decoder.chunk_count :
          decoder.matrix.data[rank_before + 1].coding_vector[i] \notin Coeffs

\* C16: SecureEncoder::new, prepare and Chunks::new fail with EmptyData when
\* the data is empty, also when chunk_count is 0 as well; fail with
\* ZeroChunkCount when the data is not empty and chunk_count is 0; and
\* succeed for every non-empty data with chunk_count >= 1, also when
\* chunk_count is larger than the length of the data.
C16_ConstructionErrors ==
    call.op \in {"SecureEncoder::new", "SecureEncoder::prepare", "Chunks::new"} =>
       IF call.data = << >>
       THEN call.result.kind = "Err" /\ call.result.err = "EmptyData"
       ELSE IF call.chunk_count = 0
       THEN call.result.kind = "Err" /\ call.result.err = "ZeroChunkCount"
       ELSE call.result.kind = "Ok"

\* empty data and a zero chunk count in one call
C16_Witness ==
    /\ call.op = "SecureEncoder::prepare"
    /\ call.data = << >>
    /\ call.chunk_count = 0
    /\ call.result.kind = "Err"
    /\ call.result.err = "EmptyData"

\* C17: Decoder::new(chunk_size, chunk_count) of the generic decoder fails
\* with ZeroChunkSize when chunk_size is 0, with ZeroPacketCount when
\* chunk_size > 0 and chunk_count is 0, and otherwise returns a decoder of
\* rank 0 with an empty row buffer and a pivot table of chunk_count empty
\* entries.
C17_DecoderNew ==
    call.op = "Decoder::new" =>
       IF call.chunk_size = 0
       THEN call.result.kind = "Err" /\ call.result.err = "ZeroChunkSize"
       ELSE IF call.chunk_count = 0
       THEN call.result.kind = "Err" /\ call.result.err = "ZeroPacketCount"
       ELSE /\ call.result.kind = "Ok"
            /\ call.result.value.chunk_size = call.chunk_size
            /\ call.result.value.chunk_count = call.chunk_count
            /\ Decoder_rank(call.result.value) = 0
            /\ call.result.value.matrix.data = << >>
            /\ Len(call.result.value.matrix.pivots) = call.chunk_count
            /\ \A c \in 1..call.chunk_count : call.result.value.matrix.pivots[c] = None

C17_Witness ==
    /\ call.op = "Decoder::new"
    /\ call.chunk_size = 2
    /\ call.chunk_count = 3
    /\ call.result.kind = "Ok"
    /\ call.result.value.matrix.pivots = <<None, None, None>>

\* C18: Decoder::new of the GF(2^8) decoder reports a zero chunk_size with
\* the error kind ZeroChunkSize and a zero generation size with
\* ZeroPacketCount.
C18_GFDecoderNewErrors ==
    call.op = "GF256 Decoder::new" =>
       /\ call.chunk_size = 0
             => call.result.kind = "Err" /\ call.result.err = "ZeroChunkSize"
       /\ (call.chunk_size > 0 /\ call.chunk_count = 0)
             => call.result.kind = "Err" /\ call.result.err = "ZeroPacketCount"

\* C19: in GF(2^8), inv(a) of a non-zero a is Some(b) with a * b = b * a =
\* one, and inv(zero) is None; a / zero is None for every a, and a / b for a
\* non-zero b is Some(q) with q * b = a.
C19_InverseAndDivision ==
    /\ call.op = "GF256::inv" =>
          IF call.a = GF256_zero THEN call.result = None
          ELSE /\ is_some(call.result)
               /\ unwrap(call.result) \in GF256_elements
               /\ GF256_mul(call.a, unwrap(call.result)) = GF256_one
               /\ GF256_mul(unwrap(call.result), call.a) = GF256_one
    /\ call.op = "GF256::div" =>
          IF call.b = GF256_zero THEN call.result = None
          ELSE /\ is_some(call.result)
               /\ unwrap(call.result) \in GF256_elements
               /\ GF256_mul(unwrap(call.result), call.b) = call.a

\* a division by an element other than one whose quotient is not the dividend
C19_Witness ==
    /\ call.op = "GF256::div"
    /\ call.a = 255
    /\ call.b = 2
    /\ is_some(call.result)
    /\ unwrap(call.result) # call.a
    /\ GF256_mul(unwrap(call.result), 2) = 255

\* the third operands of the laws with three: zero, one, the powers of the
\* primitive element below 2^8 and its inverse, the low byte of the reducing
\* polynomial, and bytes of mixed bits
ThirdOperands == {0, 1, 2, 3, 4, 8, 16, 29, 32, 64, 127, 128, 142, 170, 254, 255}

\* C20: GF(2^8) arithmetic satisfies the field laws: addition and the
\* table-based multiplication are associative and commutative, zero and one
\* are their identities, a + (-a) = zero, a * zero = zero, multiplication
\* distributes over addition on both sides, and a - b = a + b.
C20_FieldLaws ==
    /\ call.op = "GF256::add" =>
          /\ call.result \in GF256_elements
          /\ call.result = GF256_add(call.b, call.a)
          /\ \A c \in ThirdOperands :
                GF256_add(call.result, c) = GF256_add(call.a, GF256_add(call.b, c))
          /\ call.b = GF256_zero => call.result = call.a
          /\ call.a = GF256_zero => call.result = call.b
          /\ call.b = GF256_neg(call.a) => call.result = GF256_zero
          /\ call.a = GF256_neg(call.b) => call.result = GF256_zero
    /\ call.op = "GF256::mul" =>
          /\ call.result \in GF256_elements
          /\ call.result = GF256_mul(call.b, call.a)
          /\ \A c \in ThirdOperands :
                /\ GF256_mul(call.result, c) = GF256_mul(call.a, GF256_mul(call.b, c))
                /\ GF256_mul(call.a, GF256_add(call.b, c))
                      = GF256_add(call.result, GF256_mul(call.a, c))
                /\ GF256_mul(GF256_add(c, call.a), call.b)
                      = GF256_add(GF256_mul(c, call.b), call.result)
          /\ call.b = GF256_one => call.result = call.a
          /\ call.a = GF256_one => call.result = call.b
          /\ (call.a = GF256_zero \/ call.b = GF256_zero) => call.result = GF256_zero
    /\ call.op = "GF256::sub" => call.result = GF256_add(call.a, call.b)
    /\ call.op = "GF256::neg" =>
          /\ GF256_add(call.a, call.result) = GF256_zero
          /\ GF256_add(call.result, call.a) = GF256_zero

\* a product that left the first half of the EXP table
C20_Witness ==
    /\ call.op = "GF256::mul"
    /\ call.a = 255
    /\ call.b = 254
    /\ GF256_LOG_TABLE[call.a + 1] + GF256_LOG_TABLE[call.b + 1] >= GF256_ORDER
    /\ call.result \notin {0, 1, 254, 255}

----------------------------------------------------------------------------
\* C21: the primitive element 2 has multiplicative order exactly 255 under the
\* table-based multiplication: its n-th power is one exactly when n is a
\* multiple of 255 (so 2^255 = one and 2^n # one for 0 < n < 255), and no
\* power of it is zero.
C21_PrimitiveElementOrder ==
    call.op = "GF256::primitive_element" =>
        /\ call.current # GF256_zero
        /\ (call.current = GF256_one) <=> (call.n % (GF256_ORDER - 1) = 0)

\* the walk has come to the 255th power, which is one
C21_Witness ==
    /\ call.op = "GF256::primitive_element"
    /\ call.n = GF256_ORDER - 1
    /\ call.current = GF256_one

----------------------------------------------------------------------------
\* C22: chunk round-trip.  For any byte string b with |b| <= SAFE_CAPACITY,
\* unpacking (to_bytes) the symbol packed from b (from_bytes) yields b
\* zero-extended to SAFE_CAPACITY bytes: b itself when |b| = SAFE_CAPACITY,
\* and otherwise b followed by SAFE_CAPACITY - |b| zero bytes.
C22_RoundTripZeroExtended ==
    call.op = "Field::to_bytes" =>
        call.result = call.b \o [i \in 1..(SAFE_CAPACITY - Len(call.b)) |-> 0]

\* a byte string shorter than SAFE_CAPACITY, of a non-zero byte, has been
\* packed and unpacked
C22_Witness ==
    /\ call.op = "Field::to_bytes"
    /\ Len(call.b) = SAFE_CAPACITY - 1
    /\ \E i \in 1..Len(call.b) : call.b[i] # 0

\* C22 as stated: unpacking the symbol packed from b yields the byte string
\* b itself, for every b with |b| <= SAFE_CAPACITY.
C22_RoundTripExact ==
    call.op = "Field::to_bytes" => call.result = call.b

----------------------------------------------------------------------------
\* the columns of the matrix m that a stored row owns
Occupied(m) == {c \in 1..Len(m.pivots) : is_some(m.pivots[c])}

\* every stored row but the owner of an occupied column holds zero there
ReducedForm(m) ==
    \A c \in Occupied(m) : \A i \in 1..Len(m.data) :
        i # unwrap(m.pivots[c]) => is_zero_vartime(m.data[i].coding_vector[c])

\* the decoder as new, and as it is after the packets of q in turn
FreshDecoder == Decoder_new(decoder.chunk_size, decoder.chunk_count).value
RECURSIVE FeedAll(_, _)
FeedAll(d, q) ==
    IF q = << >> THEN d ELSE FeedAll(Decoder_decode(d, Head(q)).decoder, Tail(q))

\* C23: reduced form is an invariant of the decoder: after every decode call,
\* for every occupied pivot column c, every stored row other than the row
\* owning c has a zero coefficient in column c.
C23_ReducedForm == Called => ReducedForm(decoder.matrix)

\* the decoder holds two rows, of a packet p0 and of the packet fed last:
\* eliminate took the row of p0 off the last packet, and back_substitute
\* took the new row off the row of p0, which held a non-zero coefficient in
\* the new pivot column
C23_Witness ==
    /\ Called
    /\ Decoder_rank(decoder) = 2
    /\ \E v \in CodingVectors(encoder.chunk_count) :
          LET p0 == encode_with_vector(encoder, v).value
              d1 == FeedAll(FreshDecoder, <<p0>>)
              first_col == unwrap(leading_coefficient(d1.matrix.data[1]))
              new_col == unwrap(leading_coefficient(decoder.matrix.data[2]))
          IN  /\ Decoder_rank(d1) = 1
              /\ FeedAll(d1, <<unwrap(last)>>) = decoder
              /\ ~is_zero_vartime(unwrap(last).coding_vector[first_col])
              /\ ~is_zero_vartime(d1.matrix.data[1].coding_vector[new_col])

----------------------------------------------------------------------------
\* every stored row leads with a one in a column whose pivot entry is the
\* row's index; every populated pivot entry is the index of a stored row that
\* leads in that column; the rank counts the populated entries and the rows
PivotForm(m) ==
    /\ \A i \in 1..Len(m.data) :
          LET lc == leading_coefficient(m.data[i]) IN
          /\ is_some(lc)
          /\ m.data[i].coding_vector[unwrap(lc)] = Scalar_ONE
          /\ m.pivots[unwrap(lc)] = Some(i)
    /\ \A c \in Occupied(m) :
          /\ unwrap(m.pivots[c]) \in 1..Len(m.data)
          /\ leading_coefficient(m.data[unwrap(m.pivots[c])]) = Some(c)
    /\ m.rank = Cardinality(Occupied(m))
    /\ m.rank = Len(m.data)

\* the rows stored before a call are stored after it, with the leading
\* columns they had
LeadingColumnsKept ==
    \A i \in 1..Len(decoder.matrix.data) :
        /\ i <= Len(decoder'.matrix.data)
        /\ leading_coefficient(decoder'.matrix.data[i])
              = leading_coefficient(decoder.matrix.data[i])

\* C24: after every decode call each stored row's first non-zero coefficient
\* equals one and sits at a column whose pivot-table entry is that row's
\* index; every populated pivot entry points to such a row; rank equals both
\* the number of populated pivot entries and the number of stored rows; and
\* back-substitution never changes the leading column of an earlier row.
C24_PivotTable ==
    /\ [](Called => PivotForm(decoder.matrix))
    /\ [][LeadingColumnsKept]_vars

\* a call has stored a second row, which leads in the first column, behind
\* a row that leads in the second: the pivot table is not in row order
C24_Witness ==
    /\ Called
    /\ rank_before = 1
    /\ Decoder_rank(decoder) = 2
    /\ decoder.matrix.pivots[1] = Some(2)
    /\ decoder.matrix.pivots[2] = Some(1)

----------------------------------------------------------------------------
\* the columns of the GF(2^8) decoder d that a stored row owns
GFOccupied(d) == {c \in 1..d.generation_size : is_some(d.pivot_rows[c])}

\* the packet p as eliminate leaves it, for the matrix decoder: zero in the
\* occupied columns, leading (if at all) in a free column, and stored
\* exactly when it is not all-zero
EliminatedClear(p) ==
    LET e == eliminate(decoder.matrix, p)
        lc == leading_coefficient(e.packet)
    IN  /\ ~e.panic
        /\ \A c \in Occupied(decoder.matrix) : is_zero_vartime(e.packet.coding_vector[c])
        /\ is_some(lc) => decoder.matrix.pivots[unwrap(lc)] = None
        /\ (Decoder_rank(decoder') = Decoder_rank(decoder)) <=> (lc = None)
        /\ is_some(lc) => Decoder_rank(decoder') = Decoder_rank(decoder) + 1

\* the same for the GF(2^8) decoder and eliminate_packet
GFEliminatedClear(p) ==
    LET e == GF_eliminate_packet(gf, p)
        lc == GF_leading_coefficient(e.packet)
    IN  /\ ~e.panic
        /\ \A c \in GFOccupied(gf) : e.packet.coding_vector[c] = GF256_zero
        /\ is_some(lc) => gf.pivot_rows[unwrap(lc)] = None
        /\ (GFDecoder_rank(gf') = GFDecoder_rank(gf)) <=> (lc = None)
        /\ is_some(lc) => GFDecoder_rank(gf') = GFDecoder_rank(gf) + 1

\* C25: in every decode call that reaches the elimination step, of either
\* decoder, the incoming packet leaves it with a zero coefficient in every
\* occupied pivot column, so its leading column, if it has one, is never an
\* occupied pivot column: the "pivot already occupied" branch is never taken,
\* and the packet is rejected only because its reduced coding vector is
\* all-zero.
C25_OccupiedBranchNeverTaken ==
    [][LET p == unwrap(last') IN
       /\ (call'.op = "Decoder::decode" /\ Len(p.coding_vector) = decoder.chunk_count)
             => EliminatedClear(p)
       /\ (call'.op = "GF256 Decoder::decode" /\ Len(p.coding_vector) = gf.generation_size)
             => GFEliminatedClear(p)]_vars

\* the matrix decoder has rejected a packet that led in an occupied pivot
\* column as it arrived: the matrix is as it was before the call, and
\* eliminate reduces the packet's coding vector to zero against it
C25_Witness ==
    /\ call.op = "Decoder::decode"
    /\ ret = Ok_None
    /\ Decoder_rank(decoder) = rank_before
    /\ Len(LastVector) = decoder.chunk_count
    /\ is_some(leading_coefficient(unwrap(last)))
    /\ unwrap(leading_coefficient(unwrap(last))) \in Occupied(decoder.matrix)
    /\ \E c \in 1..decoder.chunk_count :
          /\ c # unwrap(leading_coefficient(unwrap(last)))
          /\ ~is_zero_vartime(LastVector[c])
    /\ leading_coefficient(eliminate(decoder.matrix, unwrap(last)).packet) = None

----------------------------------------------------------------------------
\* every data symbol of the row is the sum its coding vector gives over the
\* encoder's chunks
LinearlyConsistent(row) ==
    /\ Len(row.coding_vector) = encoder.chunk_count
    /\ Len(row.data) = symbol_count(encoder)
    /\ \A j \in 1..Len(row.data) :
          row.data[j] = FullSum(row.coding_vector, j, encoder.chunk_count)

\* the bytes of the encoder's chunks, in chunk order
ChunkStream ==
    concat(Vec([c \in 1..encoder.chunk_count |-> Chunk_bytes(encoder.chunks[c])]))

\* C26: linear consistency.  When all packets fed come from one encoder,
\* after any sequence of decode calls every stored row satisfies data[j] =
\* sum over i of coding_vector[i] * chunk_i[j]; at rank C the row owning
\* pivot column c has the unit coding vector e_c and its data equals the
\* original chunk c, and the final extraction places it at chunk position c
\* whatever its row index is: it reads the bytes of the chunks in chunk order.
C26_LinearConsistency ==
    /\ \A i \in 1..Len(decoder.matrix.data) : LinearlyConsistent(decoder.matrix.data[i])
    /\ Decoder_rank(decoder) = decoder.chunk_count =>
          /\ \A c \in 1..decoder.chunk_count :
                LET row == decoder.matrix.data[unwrap(decoder.matrix.pivots[c])] IN
                /\ row.coding_vector = Unit(decoder.chunk_count, c)
                /\ row.data = encoder.chunks[c].symbols
          /\ LET out == Matrix_decode(decoder.matrix, decoder.chunk_size) IN
                /\ out.kind = "Ok"
                /\ Extracted(ChunkStream, Ok_Some(out.value))

\* a call brought the rank to C with the rows stored out of column order,
\* over chunks that differ, with a packet whose coding vector holds more
\* than one non-zero coefficient
C26_Witness ==
    /\ Completing
    /\ decoder.chunk_count >= 2
    /\ decoder.matrix.pivots[1] # Some(1)
    /\ encoder.chunks[1] # encoder.chunks[2]
    /\ \E c \in 1..decoder.chunk_count :
          /\ c # unwrap(leading_coefficient(unwrap(last)))
          /\ ~is_zero_vartime(LastVector[c])

----------------------------------------------------------------------------
(* Polynomials over GF(2) of degree below 8, a byte holding the            *)
(* coefficients, and their arithmetic modulo x^8 + x^4 + x^3 + x^2 + 1.    *)

IrreduciblePolynomial == 2 ^ 8 + 2 ^ 4 + 2 ^ 3 + 2 ^ 2 + 1

\* x * a: the coefficients shifted up, and the polynomial taken off when the
\* product reaches degree 8
TimesX(a) ==
    IF 2 * a >= 2 ^ 8
    THEN xor(2 * a - 2 ^ 8, IrreduciblePolynomial - 2 ^ 8)
    ELSE 2 * a

RECURSIVE TimesXPower(_, _)
\* x^i * a
TimesXPower(a, i) == IF i = 0 THEN a ELSE TimesX(TimesXPower(a, i - 1))

\* a * b: the sum (xor) of x^i * a over the terms x^i of b
PolynomialProduct(a, b) ==
    LET term(i) == IF bit(b, i) = 1 THEN TimesXPower(a, i) ELSE 0
    IN  xor(xor(xor(term(0), term(1)), xor(term(2), term(3))),
            xor(xor(term(4), term(5)), xor(term(6), term(7))))

\* EXP[0] is one and every later entry is x times the entry before it, so
\* EXP[i] is x^i (2^i) modulo the polynomial, through all 510 entries; LOG
\* undoes EXP over the first cycle
TablesAgree ==
    /\ Len(GF256_EXP_TABLE) = 2 * (GF256_ORDER - 1)
    /\ Len(GF256_LOG_TABLE) = GF256_ORDER
    /\ GF256_EXP_TABLE[0 + 1] = GF256_one
    /\ \A i \in 1..(Len(GF256_EXP_TABLE) - 1) :
          GF256_EXP_TABLE[i + 1] = TimesX(GF256_EXP_TABLE[(i - 1) + 1])
    /\ \A i \in 0..(GF256_ORDER - 2) :
          GF256_LOG_TABLE[GF256_EXP_TABLE[i + 1] + 1] = i

\* C27: the hard-coded tables agree with the polynomial x^8 + x^4 + x^3 +
\* x^2 + 1: EXP[i] is 2^i reduced modulo it for every 0 <= i < 510, LOG[EXP[i]]
\* = i for 0 <= i < 255, so the table-based product equals the carry-less
\* polynomial product modulo it for all byte pairs, and every table index
\* LOG[a] + LOG[b] and 255 - LOG[a] is inside the table.
C27_TablesMatchPolynomial ==
    /\ TablesAgree
    /\ call.op = "GF256::mul" =>
          /\ call.result = PolynomialProduct(call.a, call.b)
          /\ GF256_LOG_TABLE[call.a + 1] + GF256_LOG_TABLE[call.b + 1]
                \in 0..(Len(GF256_EXP_TABLE) - 1)
    /\ call.op = "GF256::inv" =>
          (GF256_ORDER - 1) - GF256_LOG_TABLE[call.a + 1] \in 0..(Len(GF256_EXP_TABLE) - 1)

\* a product whose logarithms add up past the first cycle of EXP, of factors
\* whose polynomial product has to be reduced
C27_Witness ==
    /\ call.op = "GF256::mul"
    /\ call.a # GF256_zero
    /\ call.b # GF256_zero
    /\ GF256_LOG_TABLE[call.a + 1] + GF256_LOG_TABLE[call.b + 1] > GF256_ORDER
    /\ call.a >= 2 ^ 7
    /\ call.b >= 2 ^ 7

====
